---- MODULE Spec2Model ----
(***************************************************************************)
(* Chat-turn orchestration of application/single_app/route_backend_chats.py *)
(* (chat_api) and the helpers it calls.  One turn is one worker running    *)
(* chat_api; its position is pc[t], its locals are the variables indexed   *)
(* by the turn.  The stores (conversations, messages, safety log) are      *)
(* shared.  External providers answer nondeterministically.                *)
(***************************************************************************)
EXTENDS Integers, Sequences, FiniteSets, TLC

\* ---------------------------------------------------------------- bounds
MaxTurns == 2
MaxCats == 2
MaxChunks == 1
MaxHistoryLimit == 2
MaxWrites == 2
MaxSecond == 1
MaxMetaChunks == 2
MaxCollects == 2
MaxCitedChunks == 3
MaxContextCollects == 4
MaxCalls == 32
MaxOtherCalls == 1
MaxTime == 61
MaxAgents == 2
MaxLabelledChunks == 1
MaxIndexResults == 2
MaxScore == 3
MaxSearchTopN == 3
MaxStored == 2

\* ------------------------------------------------------- program constants
BlockSeverity == 4

Turns == {"w1", "w2"}
ConvIdOrder == <<"c1", "c2">>
ConvIds == {ConvIdOrder[i] : i \in 1..Len(ConvIdOrder)}
Users == {"u1"}
\* request.remote_addr of the callers of get_spec
ClientIps == {"ip1", "ip2"}
\* A message text is the sequence of its characters.
UserMessages == {<<"h", "e", "l", "l", "o">>}
Severities == {0, 3, 4}
Pages == {1, 3}
HistoryLimits == 0..MaxHistoryLimit

NoneVal == "None"
NewConversationTitle ==
    <<"N", "e", "w", " ", "C", "o", "n", "v", "e", "r", "s", "a", "t", "i",
      "o", "n">>
TerminalErrorText == "Sorry, I encountered an error."

VARIABLES
    conversations,   \* cosmos_conversations_container: id -> record
    messages,        \* cosmos_messages_container, in timestamp order
    safety_log,      \* cosmos_safety_container
    clock,           \* datetime.utcnow()
    turn_no,         \* number of turns submitted so far
    pc,              \* position of each turn inside chat_api
    req,             \* request body of each turn
    gpt_model,       \* locals of chat_api, per turn
    conversation_id,
    conversation_item,
    cs_response,
    blocked,
    search_results,
    system_messages_for_augmentation,
    hybrid_citations_list,
    bing_citations_list,
    conversation_history_for_api,
    history_split,   \* total_messages, conversation_history_limit, recent_messages
    fallback_steps,
    step_idx,
    chain_result,
    response,        \* what jsonify(...) returned, per turn
    trace,           \* external calls made by each turn, in order
    request_counts,  \* SwaggerCache._request_counts: IP -> count, reset_time
    calls,           \* the answers of get_spec so far, per client IP
    agent_locals,    \* all_agents, agent_name_to_select, selected_agent
    search_query,    \* the query handed to hybrid search, per turn
    search_call      \* one call of hybrid_search: arguments, index results,
                     \* returned list

vars == <<conversations, messages, safety_log, clock, turn_no, pc, req,
          gpt_model, conversation_id, conversation_item, cs_response, blocked,
          search_results, system_messages_for_augmentation,
          hybrid_citations_list, bing_citations_list,
          conversation_history_for_api, history_split, fallback_steps,
          step_idx, chain_result, response, trace, request_counts, calls,
          agent_locals, search_query, search_call>>

stores == <<conversations, messages, safety_log>>
gate_locals == <<cs_response, blocked>>
aug_locals == <<search_results, system_messages_for_augmentation,
                hybrid_citations_list, bing_citations_list>>
history_locals == <<conversation_history_for_api, history_split>>
chain_locals == <<fallback_steps, step_idx, chain_result>>

\* ------------------------------------------------------------- helpers
Min(a, b) == IF a < b THEN a ELSE b

Range(s) == {s[i] : i \in 1..Len(s)}

Log(t, events) == [trace EXCEPT ![t] = @ \o events]

Goto(t, label) == [pc EXCEPT ![t] = label]

Return(t, r) == /\ response' = [response EXCEPT ![t] = r]
                /\ pc' = [pc EXCEPT ![t] = "done"]

NoResponse == [status |-> 0, kind |-> NoneVal, reply |-> NoneVal,
               blocked |-> FALSE, model |-> NoneVal, notice |-> NoneVal]

ErrorResponse(kind) == [NoResponse EXCEPT !.status = 500, !.kind = kind]

NoRequest == [turn |-> 0, user_id |-> NoneVal, message |-> NoneVal,
              conversation_id |-> NoneVal, hybrid_search |-> FALSE,
              bing_search |-> FALSE, image_generation |-> FALSE]

NoItem == [id |-> NoneVal, user_id |-> NoneVal, last_updated |-> 0,
           title |-> NoneVal, classification |-> {}, context |-> <<>>,
           tags |-> <<>>]

NoVerdict == [status |-> NoneVal, categories_analysis |-> <<>>,
              blocklists_match |-> <<>>]

NoSplit == [total_messages |-> 0, conversation_history_limit |-> 0,
            recent_messages |-> <<>>]

\* line 926-929: the defaults of the reply tuple
DefaultResult(model) == [text |-> TerminalErrorText, model |-> model,
                         mode |-> NoneVal, notice |-> NoneVal]

\* ------------------------------------------------------------------ Init
Init ==
    /\ conversations = <<>>
    /\ messages = <<>>
    /\ safety_log = <<>>
    /\ clock = 0
    /\ turn_no = 0
    /\ pc = [t \in Turns |-> "idle"]
    /\ req = [t \in Turns |-> NoRequest]
    /\ gpt_model = [t \in Turns |-> ""]
    /\ conversation_id = [t \in Turns |-> NoneVal]
    /\ conversation_item = [t \in Turns |-> NoItem]
    /\ cs_response = [t \in Turns |-> NoVerdict]
    /\ blocked = [t \in Turns |-> FALSE]
    /\ search_results = [t \in Turns |-> <<>>]
    /\ system_messages_for_augmentation = [t \in Turns |-> <<>>]
    /\ hybrid_citations_list = [t \in Turns |-> <<>>]
    /\ bing_citations_list = [t \in Turns |-> <<>>]
    /\ conversation_history_for_api = [t \in Turns |-> <<>>]
    /\ history_split = [t \in Turns |-> NoSplit]
    /\ fallback_steps = [t \in Turns |-> <<>>]
    /\ step_idx = [t \in Turns |-> 1]
    /\ chain_result = [t \in Turns |-> DefaultResult("")]
    /\ response = [t \in Turns |-> NoResponse]
    /\ trace = [t \in Turns |-> <<>>]
    /\ request_counts = <<>>
    /\ calls = [ip \in ClientIps |-> <<>>]
    /\ search_query = [t \in Turns |-> NoneVal]
    /\ search_call = [kind |-> "ok", doc_scope |-> "all", top_n |-> 12,
                      chunks |-> <<>>, group_chunks |-> <<>>,
                      results |-> <<>>, returned |-> FALSE]
    /\ agent_locals =
          [t \in Turns |->
              [all_agents |-> <<>>, agent_name_to_select |-> NoneVal,
               selected_agent |-> [name |-> NoneVal,
                                   default_agent |-> FALSE]]]

\* ------------------------------------------------ model resolution (95-175)
\* The settings that decide the completion model, and the model the request
\* names ("" when it names none).
ModelConfigs ==
    [enable_gpt_apim : BOOLEAN,
     deployments : {<<>>, <<"gpt-4o">>, <<"gpt-4o", "gpt-4.1">>},
     frontend_gpt_model : {"", "gpt-4o"},
     managed_identity : BOOLEAN,
     api_key : BOOLEAN]

\* Variant: with several APIM deployments and none requested, the first
\* one is used.
ResolveModelFirstDeployment(cfg) ==
    IF cfg.deployments = <<>> THEN ""
    ELSE IF cfg.frontend_gpt_model # "" THEN cfg.frontend_gpt_model
         ELSE cfg.deployments[1]

\* "" stands for the ValueError raised inside the try block.
ResolveModel(cfg) ==
    IF cfg.enable_gpt_apim
    THEN IF cfg.deployments = <<>> THEN ""
         ELSE IF cfg.frontend_gpt_model # ""
              THEN IF cfg.frontend_gpt_model \in Range(cfg.deployments)
                   THEN cfg.frontend_gpt_model ELSE ""
              ELSE IF Len(cfg.deployments) = 1 THEN cfg.deployments[1] ELSE ""
    ELSE IF cfg.deployments = <<>> THEN ""
         ELSE IF ~cfg.managed_identity /\ ~cfg.api_key THEN ""
              ELSE IF cfg.frontend_gpt_model # ""
                   THEN cfg.frontend_gpt_model ELSE cfg.deployments[1]

\* ------------------------------------------------------------ the stores
\* Variant: a title the stored record already has is kept.
UpsertConversationKeepingTitle(store, item) ==
    [c \in (DOMAIN store) \cup {item.id} |->
        IF c # item.id THEN store[c]
        ELSE IF c \in DOMAIN store /\ store[c].title # NewConversationTitle
             THEN [item EXCEPT !.title = store[c].title]
             ELSE item]

\* upsert_item on the conversations container: last write wins.
UpsertConversation(store, item) ==
    [c \in (DOMAIN store) \cup {item.id} |->
        IF c = item.id THEN item ELSE store[c]]

\* random.randint(1000, 9999)
FirstDraw == 1000
LastDraw == 9999

\* lines 217, 310, 607, 714, 1281:
\* f"{conversation_id}_{role}_{int(time.time())}_{random.randint(1000,9999)}"
MessageId(c, role, second, draw) ==
    [conversation_id |-> c, role |-> role, second |-> second, draw |-> draw]

\* upsert_item on the messages container: a document with the id of a
\* stored one replaces it; the store is read in timestamp order, so the
\* new document comes last.
UpsertMessage(store, doc) ==
    Append(SelectSeq(store, LAMBDA m : m.id # doc.id), doc)

Doc(c, role, content, turn, second, draw) ==
    [id |-> MessageId(c, role, second, draw), conversation_id |-> c,
     role |-> role, content |-> content, turn |-> turn]

\* The documents a turn writes.  The turns of Spec and SpecChain run one
\* after another with the clock a second further at each turn, and the
\* augmentation messages of one turn draw different numbers; SpecIds
\* leaves seconds and draws free.
MessageDoc(t, role, content, draw) ==
    Doc(conversation_id[t], role, content, req[t].turn, clock, draw)

\* Variant: the new record always gets the first id.
NewConversationItemFirstId(c, u, now) ==
    [id |-> ConvIdOrder[1], user_id |-> u, last_updated |-> now,
     title |-> NewConversationTitle, classification |-> {},
     context |-> <<>>, tags |-> <<>>]

NewConversationItem(c, u, now) ==
    [id |-> c, user_id |-> u, last_updated |-> now,
     title |-> NewConversationTitle, classification |-> {},
     context |-> <<>>, tags |-> <<>>]

\* uuid.uuid4(): an id no conversation has; the first unused one stands
\* for it (NoneVal when the ids of the model are used up).
NewId(used) ==
    IF \A i \in 1..Len(ConvIdOrder) : ConvIdOrder[i] \in used THEN NoneVal
    ELSE ConvIdOrder[CHOOSE i \in 1..Len(ConvIdOrder) :
             /\ ConvIdOrder[i] \notin used
             /\ \A j \in 1..(i - 1) : ConvIdOrder[j] \in used]

Requests(n) ==
    [turn : {n}, user_id : Users, message : UserMessages,
     conversation_id : ConvIds \cup {NoneVal},
     hybrid_search : BOOLEAN, bing_search : BOOLEAN,
     image_generation : BOOLEAN]

\* Variant: the user message is not written before the safety gate.
AfterConversationLoadSkipsWrite == "safety"

\* lines 214-217: section 2 follows the load of the conversation
AfterConversationLoad == "user_message"

\* ------------------------------------------- chat_api, lines 37-212
\* Request parsing, model resolution and section 1 (load or create the
\* conversation).
Submit(t, requests) ==
    /\ UNCHANGED <<request_counts, calls, agent_locals, search_call>>
    /\ pc[t] = "idle"
    /\ t = "w1" \/ pc["w1"] # "idle"
    /\ turn_no < MaxTurns
    /\ turn_no' = turn_no + 1
    /\ \E r \in requests, cfg \in ModelConfigs :
         /\ req' = [req EXCEPT ![t] = r]
         /\ search_query' = [search_query EXCEPT ![t] = r.message]
         /\ IF ResolveModel(cfg) = ""
            THEN /\ Return(t, ErrorResponse("config_error"))
                 /\ UNCHANGED <<stores, clock, gpt_model, conversation_id,
                                conversation_item, trace>>
            ELSE /\ gpt_model' = [gpt_model EXCEPT ![t] = ResolveModel(cfg)]
                 /\ \/ \* no id supplied: uuid4 and a new record
                       /\ r.conversation_id = NoneVal
                       /\ \E c \in {NewId(DOMAIN conversations)} \ {NoneVal} :
                            /\ conversation_id' =
                                  [conversation_id EXCEPT ![t] = c]
                            /\ conversation_item' =
                                  [conversation_item EXCEPT ![t] =
                                     NewConversationItem(c, r.user_id, clock)]
                            /\ conversations' = UpsertConversation(
                                  conversations,
                                  NewConversationItem(c, r.user_id, clock))
                       /\ clock' = clock + 1
                       /\ trace' = Log(t, <<"upsert_conversation">>)
                       /\ pc' = Goto(t, AfterConversationLoad)
                       /\ UNCHANGED <<messages, safety_log, response>>
                    \/ \* id supplied, CosmosResourceNotFoundError
                       /\ r.conversation_id # NoneVal
                       /\ r.conversation_id \notin DOMAIN conversations
                       /\ conversation_id' =
                             [conversation_id EXCEPT ![t] = r.conversation_id]
                       /\ conversation_item' =
                             [conversation_item EXCEPT ![t] =
                                NewConversationItem(r.conversation_id,
                                                    r.user_id, clock)]
                       /\ conversations' = UpsertConversation(
                             conversations,
                             NewConversationItem(r.conversation_id,
                                                 r.user_id, clock))
                       /\ clock' = clock + 1
                       /\ trace' = Log(t, <<"read_conversation",
                                            "upsert_conversation">>)
                       /\ pc' = Goto(t, AfterConversationLoad)
                       /\ UNCHANGED <<messages, safety_log, response>>
                    \/ \* id supplied and found
                       /\ r.conversation_id \in DOMAIN conversations
                       /\ conversation_id' =
                             [conversation_id EXCEPT ![t] = r.conversation_id]
                       /\ conversation_item' =
                             [conversation_item EXCEPT ![t] =
                                conversations[r.conversation_id]]
                       /\ trace' = Log(t, <<"read_conversation">>)
                       /\ pc' = Goto(t, AfterConversationLoad)
                       /\ UNCHANGED <<stores, clock, response>>
                    \/ \* id supplied, the read raises another exception
                       /\ r.conversation_id # NoneVal
                       /\ conversation_id' =
                             [conversation_id EXCEPT ![t] = r.conversation_id]
                       /\ trace' = Log(t, <<"read_conversation">>)
                       /\ Return(t, ErrorResponse("read_error"))
                       /\ UNCHANGED <<stores, clock, conversation_item>>
    /\ UNCHANGED <<gate_locals, aug_locals, history_locals,
                   chain_locals>>

\* Title derived from the first user message (line 231).
TitleLimit == 30

DerivedTitle(m) ==
    IF Len(m) > TitleLimit
    THEN SubSeq(m, 1, TitleLimit) \o <<".", ".", ".">>
    ELSE m

\* ------------------------------------------- chat_api, lines 217-235
\* Section 2: append the user message, derive the title, upsert the record.
PersistUserMessage(t) ==
    /\ UNCHANGED <<request_counts, calls, agent_locals, search_query,
                   search_call>>
    /\ pc[t] = "user_message"
    /\ messages' = UpsertMessage(messages,
                                 MessageDoc(t, "user", req[t].message,
                                            FirstDraw))
    /\ LET titled == IF conversation_item[t].title = NewConversationTitle
                        /\ req[t].message # <<>>
                     THEN [conversation_item[t] EXCEPT
                             !.title = DerivedTitle(req[t].message)]
                     ELSE conversation_item[t]
           item == [titled EXCEPT !.last_updated = clock]
       IN /\ conversation_item' = [conversation_item EXCEPT ![t] = item]
          /\ conversations' = UpsertConversation(conversations, item)
    /\ clock' = clock + 1
    /\ trace' = Log(t, <<"upsert_user", "upsert_conversation">>)
    /\ pc' = Goto(t, "safety")
    /\ UNCHANGED <<safety_log, turn_no, req, gpt_model, conversation_id,
                   gate_locals, aug_locals, history_locals,
                   chain_locals, response>>

\* --------------------------------------------- safety gate (246-341)
\* Sequences over a set, up to a length.
SeqsUpTo(S, n) == UNION {[1..k -> S] : k \in 0..n}

\* What analyze_text can return.
Verdicts ==
    [status : {"ok"},
     categories_analysis : SeqsUpTo(Severities, MaxCats),
     blocklists_match : {<<>>, <<"badword">>}]

\* lines 252-259: the running maximum over categories_analysis
RECURSIVE MaxSeverityFrom(_, _, _)
MaxSeverityFrom(cats, i, max_severity) ==
    IF i > Len(cats) THEN max_severity
    ELSE MaxSeverityFrom(cats, i + 1,
             IF cats[i] > max_severity THEN cats[i] ELSE max_severity)

MaxSeverity(cats) == MaxSeverityFrom(cats, 1, 0)

\* Variant: the severity threshold is exclusive.
BlockReasonsAboveThreshold(v) ==
    (IF MaxSeverity(v.categories_analysis) > BlockSeverity
     THEN <<"Max severity >= 4">> ELSE <<>>)
    \o (IF Len(v.blocklists_match) > 0 THEN <<"Blocklist match">> ELSE <<>>)

\* lines 270-275
BlockReasons(v) ==
    (IF MaxSeverity(v.categories_analysis) >= BlockSeverity
     THEN <<"Max severity >= 4">> ELSE <<>>)
    \o (IF Len(v.blocklists_match) > 0 THEN <<"Blocklist match">> ELSE <<>>)

IsBlocked(v) == BlockReasons(v) # <<>>

BlockedMessage == "Your message was blocked by Content Safety."

\* Variant: a failing checker ends the turn.
AfterCheckerErrorFailClosed == "done"

\* lines 338-341: both handlers print and fall through to section 4
AfterCheckerError == "hybrid"

\* Variant: a blocked turn is answered with 403.
BlockedReplyForbidden ==
    [NoResponse EXCEPT !.status = 403, !.kind = "blocked",
                       !.reply = BlockedMessage, !.blocked = TRUE]

\* lines 328-336
BlockedReply == [NoResponse EXCEPT !.status = 200, !.kind = "blocked",
                                   !.reply = BlockedMessage, !.blocked = TRUE]

\* lines 246-275: the call to the checker and the verdict.  The toggle
\* enable_content_safety is read only here.
SafetyCheck(t) ==
    /\ UNCHANGED <<request_counts, calls, agent_locals, search_query,
                   search_call>>
    /\ pc[t] = "safety"
    /\ \/ \* content safety disabled or no client
          /\ pc' = Goto(t, "hybrid")
          /\ UNCHANGED <<trace, gate_locals>>
       \/ \* analyze_text raises: logged, the turn goes on (338-341)
          /\ trace' = Log(t, <<"analyze_text", "analyze_text_raised">>)
          /\ pc' = Goto(t, AfterCheckerError)
          /\ UNCHANGED gate_locals
       \/ \E v \in Verdicts :
            /\ cs_response' = [cs_response EXCEPT ![t] = v]
            /\ blocked' = [blocked EXCEPT ![t] = IsBlocked(v)]
            /\ trace' = Log(t, <<"analyze_text">>)
            /\ pc' = Goto(t, "safety_verdict")
    /\ UNCHANGED <<stores, clock, turn_no, req, gpt_model, conversation_id,
                   conversation_item, aug_locals,
                   history_locals, chain_locals, response>>

\* Variant: the block is recorded and the turn goes on to retrieval.
SafetyVerdictContinues(t, faults) ==
    /\ UNCHANGED <<request_counts, calls, agent_locals, search_query,
                   search_call>>
    /\ pc[t] = "safety_verdict"
    /\ cs_response' = [cs_response EXCEPT ![t] = NoVerdict]
    /\ pc' = Goto(t, "hybrid")
    /\ IF blocked[t]
       THEN /\ safety_log' = Append(safety_log,
                 [conversation_id |-> conversation_id[t],
                  turn |-> req[t].turn,
                  reason |-> BlockReasons(cs_response[t])])
            /\ messages' = UpsertMessage(messages,
                               MessageDoc(t, "safety", BlockedMessage,
                                          FirstDraw))
            /\ trace' = Log(t, <<"upsert_safety_log", "upsert_safety">>)
            /\ UNCHANGED conversations
       ELSE UNCHANGED <<stores, trace>>
    /\ UNCHANGED <<clock, conversation_item, response, turn_no, req,
                   gpt_model, conversation_id, blocked, aug_locals,
                   history_locals, chain_locals>>

\* lines 277-341: record the block and return, or go on.  cs_response is
\* not read after this point.  Of the safety-log entity, which chat_api
\* never reads back, the conversation, the turn and the reason are kept.
\* The three writes of the recording (290, 320, 324) stand inside the try
\* of the checker call: failing = k says that the k-th of them raises, 0
\* that none does.  The handlers at 338-341 print and fall through, with
\* the writes before the failing one done.
SafetyVerdict(t, faults) ==
    /\ UNCHANGED <<request_counts, calls, agent_locals, search_query,
                   search_call>>
    /\ pc[t] = "safety_verdict"
    /\ cs_response' = [cs_response EXCEPT ![t] = NoVerdict]
    /\ IF blocked[t]
       THEN \E failing \in faults :
            /\ safety_log' =
                 IF failing = 1 THEN safety_log
                 ELSE Append(safety_log,
                        [conversation_id |-> conversation_id[t],
                         turn |-> req[t].turn,
                         reason |-> BlockReasons(cs_response[t])])
            /\ messages' =
                 IF failing \in {1, 2} THEN messages
                 ELSE UpsertMessage(messages,
                          MessageDoc(t, "safety", BlockedMessage, FirstDraw))
            /\ LET item == IF failing \in {1, 2} THEN conversation_item[t]
                           ELSE [conversation_item[t] EXCEPT
                                    !.last_updated = clock]
               IN /\ conversation_item' =
                        [conversation_item EXCEPT ![t] = item]
                  /\ conversations' =
                        IF failing = 0
                        THEN UpsertConversation(conversations, item)
                        ELSE conversations
            /\ clock' = clock + 1
            /\ IF failing = 0
               THEN /\ trace' = Log(t, <<"upsert_safety_log", "upsert_safety",
                                         "upsert_conversation">>)
                    /\ Return(t, BlockedReply)
               ELSE /\ trace' = Log(t,
                          SubSeq(<<"upsert_safety_log", "upsert_safety">>,
                                 1, failing - 1) \o <<"upsert_raised">>)
                    /\ pc' = Goto(t, AfterCheckerError)
                    /\ UNCHANGED response
       ELSE /\ pc' = Goto(t, "hybrid")
            /\ UNCHANGED <<stores, clock, conversation_item, trace,
                           response>>
    /\ UNCHANGED <<turn_no, req, gpt_model, conversation_id, blocked,
                   aug_locals, history_locals, chain_locals>>

\* ------------------------------------------- hybrid retrieval (348-517)
DefaultTopN == 12
MaxTopN == 500

\* Values the request can carry in top_n: absent, an integer, a string that
\* is not a number ("abc"), the JSON literal Infinity.
TopNRequests ==
    {[kind |-> k, val |-> 0] : k \in {"none", "str", "inf"}}
    \cup [kind : {"int"}, val : {-5, 0, 1, 12, 500, 501, 10000}]

\* lines 394-406.  int("abc") raises ValueError, which is caught;
\* int(float("inf")) raises OverflowError, which is not.
TopNRaises(v) == v.kind = "inf"

ClampTopN(v) ==
    IF v.kind = "int"
    THEN IF v.val < 1 THEN DefaultTopN
         ELSE IF v.val > MaxTopN THEN MaxTopN ELSE v.val
    ELSE DefaultTopN

Classifications == {NoneVal}

Chunks == [page_number : Pages, classification : Classifications]

\* What the embedding and search providers do during one hybrid_search.
SearchOutcomes ==
    {[kind |-> k, chunks |-> <<>>] :
        k \in {"embedding_raised", "search_raised"}}
    \cup [kind : {"ok"}, chunks : SeqsUpTo(Chunks, MaxChunks)]

\* Variant: the first top_n results of the user index, as they come.
FirstChunks(o, top_n) ==
    IF o.kind = "ok" THEN SubSeq(o.chunks, 1, Min(Len(o.chunks), top_n))
    ELSE <<>>

\* functions_search.py 317-371: the first top_n results of an index, in
\* the order the index returns them.
extract_search_results(paged_results, top_n) ==
    SubSeq(paged_results, 1, Min(Len(paged_results), top_n))

\* functions_search.py: every provider failure is caught inside
\* hybrid_search and answered with None, which chat_api treats like an
\* empty list (the empty sequence stands for both).  An outcome holds the
\* results of the user index (chunks) and may hold those of the group index
\* (group_chunks) and the scope asked for (doc_scope; personal when it is
\* not named).  Lines 103-299 choose the lists by scope, an unknown scope
\* is answered with None (301-303); line 308 is
\* sorted(results, key=score, reverse=True)[:top_n], a stable sort.
hybrid_search(o, top_n) ==
    IF o.kind # "ok" THEN <<>>
    ELSE
      LET doc_scope == IF "doc_scope" \in DOMAIN o THEN o.doc_scope
                       ELSE "personal"
          group_chunks == IF "group_chunks" \in DOMAIN o THEN o.group_chunks
                          ELSE <<>>
          results ==
              CASE doc_scope = "all" ->
                       extract_search_results(o.chunks, top_n)
                       \o extract_search_results(group_chunks, top_n)
                [] doc_scope = "personal" ->
                       extract_search_results(o.chunks, top_n)
                [] doc_scope = "group" ->
                       extract_search_results(group_chunks, top_n)
                [] OTHER -> <<>>
          n == Len(results)
          score(i) == IF "score" \in DOMAIN results[i]
                      THEN results[i].score ELSE 0
          place(i) ==
              1 + Cardinality({j \in 1..n : score(j) > score(i)})
                + Cardinality({j \in 1..(i - 1) : score(j) = score(i)})
          sorted == [k \in 1..n |->
                        results[CHOOSE i \in 1..n : place(i) = k]]
      IN SubSeq(sorted, 1, Min(n, top_n))

SearchEvents(o) ==
    CASE o.kind = "embedding_raised" ->
             <<"hybrid_search", "generate_embedding_raised">>
      [] o.kind = "search_raised" -> <<"hybrid_search", "search_raised">>
      [] OTHER -> <<"hybrid_search">>

\* Variant: the citations stay in retrieval order.
UnsortedCitations(cs) == cs

\* line 512: list.sort(key=page_number, reverse=True), a stable sort
RECURSIVE InsertDesc(_, _)
InsertDesc(sorted, c) ==
    IF sorted = <<>> THEN <<c>>
    ELSE IF Head(sorted).page_number >= c.page_number
         THEN <<Head(sorted)>> \o InsertDesc(Tail(sorted), c)
         ELSE <<c>> \o sorted

RECURSIVE SortByPageDesc(_)
SortByPageDesc(cs) ==
    IF cs = <<>> THEN <<>>
    ELSE InsertDesc(SortByPageDesc(SubSeq(cs, 1, Len(cs) - 1)), cs[Len(cs)])

HybridAugmentation == [role |-> "system", src |-> "hybrid",
                       content |-> "retrieved document excerpts"]

WebAugmentation == [role |-> "system", src |-> "web",
                    content |-> "web search results"]

\* Variant: the labels of the returned chunks replace the loaded ones.
ClassificationsOfResults(item, results) ==
    {results[i].classification : i \in 1..Len(results)} \ {NoneVal, ""}

\* lines 439, 468-469, 515-516: a label that is None or empty is not added
ClassificationsFound(item, results) ==
    item.classification
    \cup ({results[i].classification : i \in 1..Len(results)}
          \ {NoneVal, ""})

HybridSearch(t, outcomes) ==
    /\ UNCHANGED <<request_counts, calls, agent_locals, search_call>>
    /\ pc[t] = "hybrid"
    /\ IF ~req[t].hybrid_search
       THEN /\ pc' = Goto(t, "bing")
            /\ UNCHANGED <<aug_locals, conversation_item, trace, response,
                           search_query>>
       ELSE \E v \in TopNRequests, o \in outcomes :
              \* lines 350-383: the summary of the recent messages for the
              \* query: not made ("off"), a text, an empty text, the
              \* completion raises, the query for the messages raises
              LET summary_for_search ==
                      IF "summary_for_search" \in DOMAIN o
                      THEN o.summary_for_search ELSE "off"
                  summary_events ==
                      CASE summary_for_search \in {"text", "empty"} ->
                               <<"summarize_search">>
                        [] summary_for_search = "raised" ->
                               <<"summarize_search",
                                 "summarize_search_raised">>
                        [] summary_for_search = "query_raised" ->
                               <<"query_search_raised">>
                        [] OTHER -> <<>>
                  results == hybrid_search(o, ClampTopN(v))
              IN
              /\ search_query' =
                    [search_query EXCEPT ![t] =
                        IF summary_for_search = "text"
                        THEN <<"Based on the recent conversation about: ">>
                             \o req[t].message
                        ELSE @]
              /\ IF TopNRaises(v)
                 THEN \* lines 429-434
                      /\ Return(t, ErrorResponse("hybrid_error"))
                      /\ trace' = Log(t, summary_events)
                      /\ UNCHANGED <<aug_locals, conversation_item>>
                 ELSE /\ search_results' =
                            [search_results EXCEPT ![t] = results]
                      /\ trace' = Log(t, summary_events \o SearchEvents(o))
                      /\ pc' = Goto(t, "bing")
                      /\ IF results # <<>>
                         THEN /\ system_messages_for_augmentation' =
                                    [system_messages_for_augmentation
                                       EXCEPT ![t] = Append(@,
                                                      HybridAugmentation)]
                              /\ hybrid_citations_list' =
                                    [hybrid_citations_list EXCEPT ![t] =
                                       SortByPageDesc(@ \o results)]
                              /\ conversation_item' =
                                    [conversation_item EXCEPT
                                       ![t].classification =
                                          ClassificationsFound(
                                             conversation_item[t], results)]
                         ELSE UNCHANGED <<system_messages_for_augmentation,
                                          hybrid_citations_list,
                                          conversation_item>>
                      /\ UNCHANGED <<bing_citations_list, response>>
    /\ UNCHANGED <<stores, clock, turn_no, req, gpt_model, conversation_id,
                   gate_locals, history_locals, chain_locals>>

\* ----------------------------------------------- web retrieval (520-564)
WebResults == {"page"}

\* Variant: a failure of the web search provider ends the turn.
BingSearchFailureFatal(t) ==
    /\ UNCHANGED <<request_counts, calls, agent_locals, search_query,
                   search_call>>
    /\ pc[t] = "bing"
    /\ IF ~req[t].bing_search
       THEN /\ pc' = Goto(t, "image")
            /\ UNCHANGED <<trace, response>>
       ELSE /\ trace' = Log(t, <<"bing_search", "bing_search_raised">>)
            /\ Return(t, ErrorResponse("bing_error"))
    /\ UNCHANGED <<stores, clock, turn_no, req, gpt_model, conversation_id,
                   conversation_item, gate_locals, aug_locals,
                   history_locals, chain_locals>>

BingSearch(t) ==
    /\ UNCHANGED <<request_counts, calls, agent_locals, search_query,
                   search_call>>
    /\ pc[t] = "bing"
    /\ pc' = Goto(t, "image")
    /\ IF ~req[t].bing_search
       THEN UNCHANGED <<aug_locals, trace>>
       ELSE \/ \* the provider raises: bing_results stays empty (527-529)
               /\ trace' = Log(t, <<"bing_search", "bing_search_raised">>)
               /\ UNCHANGED aug_locals
            \/ \E bing_results \in SeqsUpTo(WebResults, MaxChunks) :
                 /\ trace' = Log(t, <<"bing_search">>)
                 /\ bing_citations_list' =
                       [bing_citations_list EXCEPT ![t] = bing_results]
                 /\ system_messages_for_augmentation' =
                       [system_messages_for_augmentation EXCEPT ![t] =
                          IF bing_results # <<>>
                          THEN Append(@, WebAugmentation) ELSE @]
                 /\ UNCHANGED <<search_results, hybrid_citations_list>>
    /\ UNCHANGED <<stores, clock, turn_no, req, gpt_model, conversation_id,
                   conversation_item, gate_locals,
                   history_locals, chain_locals, response>>

\* --------------------------------------------- image generation (567-635)
ImageUrl == "https://image"

ImageGeneration(t) ==
    /\ UNCHANGED <<request_counts, calls, agent_locals, search_query,
                   search_call>>
    /\ pc[t] = "image"
    /\ IF ~req[t].image_generation
       THEN /\ pc' = Goto(t, "history")
            /\ UNCHANGED <<stores, clock, conversation_item, trace,
                           response>>
       ELSE \/ \* images.generate returns
               /\ messages' = UpsertMessage(messages,
                                  MessageDoc(t, "image", ImageUrl, FirstDraw))
               /\ LET item == [conversation_item[t] EXCEPT
                                 !.last_updated = clock]
                  IN /\ conversation_item' =
                           [conversation_item EXCEPT ![t] = item]
                     /\ conversations' =
                           UpsertConversation(conversations, item)
               /\ clock' = clock + 1
               /\ trace' = Log(t, <<"images_generate", "upsert_image",
                                    "upsert_conversation">>)
               /\ Return(t, [NoResponse EXCEPT !.status = 200,
                                               !.kind = "image",
                                               !.reply = "Image loading..."]
                             @@ [image_url |-> ImageUrl,
                                 conversation_id |-> conversation_id[t],
                                 conversation_title |->
                                     conversation_item[t].title])
               /\ UNCHANGED safety_log
            \/ \* images.generate raises (632-635)
               /\ trace' = Log(t, <<"images_generate",
                                    "images_generate_raised">>)
               /\ Return(t, ErrorResponse("image_error"))
               /\ UNCHANGED <<stores, clock, conversation_item>>
    /\ UNCHANGED <<turn_no, req, gpt_model, conversation_id, gate_locals,
                   aug_locals, history_locals, chain_locals>>

\* ------------------------------------------- history assembly (640-776)
\* lines 70-74: math.ceil of the configured limit, rounded up to even
RoundUpToEven(limit) == IF limit % 2 # 0 THEN limit + 1 ELSE limit

\* Python's lst[-k:] : for k = 0 this is lst[0:], the whole list.
LastSlice(lst, k) ==
    IF k = 0 THEN lst ELSE SubSeq(lst, Len(lst) - k + 1, Len(lst))

\* Python's lst[:k]
FirstSlice(lst, k) == SubSeq(lst, 1, Min(k, Len(lst)))

\* lines 646-650: the messages of one conversation, oldest first
QueryMessages(c) == SelectSeq(messages, LAMBDA m : m.conversation_id = c)

\* lines 656-660
RecentMessages(all_messages, N) ==
    LastSlice(all_messages, Min(Len(all_messages), N))

OlderMessages(all_messages, N) ==
    FirstSlice(all_messages, Len(all_messages) - Min(Len(all_messages), N))

\* line 675: roles left out of the transcript that is summarized
NotSummarized == {"system", "safety", "blocked", "image", "file"}

MessageTextsOlder(older) ==
    SelectSeq(older, LAMBDA m : m.role \notin NotSummarized)

SummaryBlock == [role |-> "system", src |-> "summary",
                 content |-> "<Summary of previous conversation context>"]

\* Variant: safety notices are kept in the history.
AllowedRolesWithSafety == {"user", "assistant", "safety"}

\* lines 731-758: what one stored message contributes to the history
AllowedRolesInHistory == {"user", "assistant"}

\* line 732
max_file_content_length_in_history == 1000

\* Variant: the note of a file holds the whole file content.
RECURSIVE ProjectRecentWholeFile(_)
ProjectRecentWholeFile(recent) ==
    IF recent = <<>> THEN <<>>
    ELSE LET m == Head(recent)
             filename == IF "filename" \in DOMAIN m THEN m.filename
                         ELSE "uploaded_file"
             file_content == IF "file_content" \in DOMAIN m
                             THEN m.file_content ELSE <<>>
         IN
         (IF m.role \in AllowedRolesInHistory
          THEN <<[role |-> m.role, src |-> "recent", content |-> m.content]>>
          ELSE IF m.role = "file"
               THEN <<[role |-> "system", src |-> "recent",
                       content |->
                           <<"[User uploaded a file named '", filename,
                             "'. Content preview:\n">>
                           \o file_content
                           \o <<"]\nUse this file context if relevant.">>]>>
               ELSE <<>>)
         \o ProjectRecentWholeFile(Tail(recent))

\* The note of a file is the sequence of its parts: the opening text, the
\* file name, the text before the preview, the characters of the preview
\* (741-745: the first 1000 of the content, and "..." when there are more)
\* and the closing text.
RECURSIVE ProjectRecent(_)
ProjectRecent(recent) ==
    IF recent = <<>> THEN <<>>
    ELSE LET m == Head(recent)
             filename == IF "filename" \in DOMAIN m THEN m.filename
                         ELSE "uploaded_file"
             file_content == IF "file_content" \in DOMAIN m
                             THEN m.file_content ELSE <<>>
             display_content ==
                 FirstSlice(file_content, max_file_content_length_in_history)
                 \o (IF Len(file_content)
                           > max_file_content_length_in_history
                     THEN <<".", ".", ".">> ELSE <<>>)
         IN
         (IF m.role \in AllowedRolesInHistory
          THEN <<[role |-> m.role, src |-> "recent", content |-> m.content]>>
          ELSE IF m.role = "file"
               THEN <<[role |-> "system", src |-> "recent",
                       content |->
                           <<"[User uploaded a file named '", filename,
                             "'. Content preview:\n">>
                           \o display_content
                           \o <<"]\nUse this file context if relevant.">>]>>
               ELSE <<>>)
         \o ProjectRecent(Tail(recent))

\* lines 760-772: the current user message appended when the history does
\* not end with a user entry
Backstop(history, user_message) ==
    IF history = <<>> \/ history[Len(history)].role # "user"
    THEN Append(history, [role |-> "user", src |-> "backstop",
                          content |-> user_message])
    ELSE history

\* Variant: the summary block follows the recent messages.
AssembleHistorySummaryLast(summary_of_older, aug, recent, user_message) ==
    Backstop(aug \o ProjectRecent(recent)
             \o (IF summary_of_older # "" THEN <<SummaryBlock>> ELSE <<>>),
             user_message)

\* lines 698-772
AssembleHistory(summary_of_older, aug, recent, user_message) ==
    Backstop((IF summary_of_older # "" THEN <<SummaryBlock>> ELSE <<>>)
             \o aug \o ProjectRecent(recent),
             user_message)

\* The summarizer's answers after strip(): a text, nothing, or "" for the
\* exception caught at 691-693.
SummaryOutcomes == {"summary", "empty", "raised"}

\* Variant: a failed summary call leaves a text behind.
SummaryTextOnFailure(o) == IF o = "empty" THEN "" ELSE "summary text"

SummaryText(o) == IF o = "summary" THEN "summary text" ELSE ""

\* lines 709-727: each augmentation message is stored as a system message
\* with the search query and the user message.
RECURSIVE UpsertAugmentationsFrom(_, _, _, _)
UpsertAugmentationsFrom(store, t, aug, draw) ==
    IF aug = <<>> THEN store
    ELSE UpsertAugmentationsFrom(
             UpsertMessage(store,
                 MessageDoc(t, Head(aug).role, Head(aug).content, draw)
                 @@ [search_query |-> search_query[t],
                     user_message |-> req[t].message]),
             t, Tail(aug), draw + 1)

UpsertAugmentations(store, t, aug) ==
    UpsertAugmentationsFrom(store, t, aug, FirstDraw)

PrepareHistory(t) ==
    /\ UNCHANGED <<request_counts, calls, agent_locals, search_query,
                   search_call>>
    /\ pc[t] = "history"
    /\ \/ \* the query raises (774-776)
          /\ trace' = Log(t, <<"query_messages", "query_messages_raised">>)
          /\ Return(t, ErrorResponse("history_error"))
          /\ UNCHANGED <<messages, history_locals>>
       \/ \E limit \in HistoryLimits, summarize \in BOOLEAN,
             o \in SummaryOutcomes :
            LET all_messages == QueryMessages(conversation_id[t])
                N == RoundUpToEven(limit)
                recent == RecentMessages(all_messages, N)
                older == OlderMessages(all_messages, N)
                called == summarize /\ MessageTextsOlder(older) # <<>>
                summary_of_older == IF called THEN SummaryText(o) ELSE ""
                aug == system_messages_for_augmentation[t]
            IN /\ called \/ o = "empty"
               /\ messages' = UpsertAugmentations(messages, t, aug)
               /\ conversation_history_for_api' =
                     [conversation_history_for_api EXCEPT ![t] =
                        AssembleHistory(summary_of_older, aug, recent,
                                        req[t].message)]
               /\ history_split' = [history_split EXCEPT ![t] =
                     [total_messages |-> Len(all_messages),
                      conversation_history_limit |-> N,
                      recent_messages |-> recent]]
               /\ trace' = Log(t,
                     <<"query_messages">>
                     \o (IF called THEN <<"summarize">> ELSE <<>>)
                     \o (IF called /\ o = "raised"
                         THEN <<"summarize_raised">> ELSE <<>>)
                     \o (IF called /\ o = "empty"
                         THEN <<"summarize_empty">> ELSE <<>>)
                     \o [i \in 1..Len(aug) |-> "upsert_system"])
               /\ pc' = Goto(t, "build_chain")
               /\ UNCHANGED response
    /\ UNCHANGED <<conversations, safety_log, clock, turn_no, req, gpt_model,
                   conversation_id, conversation_item, gate_locals,
                   aug_locals, chain_locals>>

\* -------------------------------------- default system prompt (781-801)
DefaultPromptBlock == [role |-> "system", src |-> "default_prompt",
                       content |-> "default system prompt"]

HasGeneralSystemPrompt(history) ==
    \E i \in 1..Len(history) :
        /\ history[i].role = "system"
        /\ history[i].src \notin {"summary", "hybrid", "web"}

InsertAt(lst, idx, e) ==
    SubSeq(lst, 1, idx) \o <<e>> \o SubSeq(lst, idx + 1, Len(lst))

WithDefaultPrompt(history, default_system_prompt) ==
    IF default_system_prompt /\ ~HasGeneralSystemPrompt(history)
    THEN InsertAt(history,
                  IF history # <<>> /\ history[1].src = "summary"
                  THEN 1 ELSE 0,
                  DefaultPromptBlock)
    ELSE history

\* ------------------------------------ facts and metadata (1017-1029)
FactsBlock == [role |-> "system", src |-> "facts",
               content |-> "<Fact Memory>"]

MetadataBlock == [role |-> "system", src |-> "metadata",
                  content |-> "<Conversation Metadata>"]

\* Variant: the facts block is put in front of the metadata block.
WithFactsThenMetadata(history, facts) ==
    (IF facts THEN <<FactsBlock>> ELSE <<>>) \o <<MetadataBlock>> \o history

\* lines 1017-1029: the facts block is inserted at index 0, then the
\* metadata block is inserted at index 0.
WithFactsAndMetadata(history, facts) ==
    <<MetadataBlock>> \o (IF facts THEN <<FactsBlock>> ELSE <<>>) \o history

\* ---------------------------------------- fallback steps (1039-1246)
\* agentic: enable_semantic_kernel and the user's enable_agents;
\* multi_agent: enable_multi_agent_orchestration outside per-user mode;
\* orchestrator: "orchestrator" is among the loaded agents;
\* agent: an agent was selected; azure: enable_azure_agent_service;
\* kernel: a kernel instance exists.
ChainConfigs ==
    [agentic : BOOLEAN, multi_agent : BOOLEAN, orchestrator : BOOLEAN,
     agent : BOOLEAN, azure : BOOLEAN, kernel : BOOLEAN]

ReplyText == "reply"
GptFallbackReplyText == "[GPT Fallback. Advanced features not available.] reply"
SingleAgentNotice == "[SK Fallback]: single agent fallback mode"
KernelNotice == "[SK fallback] Running in kernel only mode"
GptOnlyNotice == "[SK Fallback]: GPT only mode"
AgentName == "agent-a"

Result(text, model, mode, notice) ==
    [text |-> text, model |-> model, mode |-> mode, notice |-> notice]

Step(name, result) == [name |-> name, result |-> result]

\* Variant: with an agent selected the chain is the agent step alone.
FallbackStepsAgentAlone(cfg, model) ==
    IF cfg.agentic /\ cfg.agent
    THEN <<Step("agent", Result(ReplyText, AgentName, "agent", NoneVal))>>
    ELSE <<Step("gpt", Result(ReplyText, model, NoneVal, NoneVal))>>

\* lines 1049-1052, 1074-1085, 1128-1130, 1181-1183, 1199-1234: what each
\* step's success transform returns
FallbackSteps(cfg, model) ==
    (IF cfg.agentic
     THEN (IF cfg.multi_agent /\ cfg.orchestrator
           THEN <<Step("orchestrator",
                       Result(ReplyText, "multi-agent-chat",
                              "multi-agent-chat", NoneVal))>>
           ELSE <<>>)
          \o (IF cfg.agent
              THEN <<Step("agent",
                          Result(ReplyText, AgentName, "agent",
                                 IF cfg.multi_agent THEN SingleAgentNotice
                                 ELSE NoneVal))>>
              ELSE <<>>)
          \o (IF cfg.azure
              THEN <<Step("azure-agent-service",
                          Result(ReplyText, "azure-agent-service",
                                 "azure-agent-service", NoneVal))>>
              ELSE <<>>)
          \o (IF cfg.kernel
              THEN <<Step("kernel",
                          Result(ReplyText, "kernel", "kernel",
                                 KernelNotice))>>
              ELSE <<>>)
     ELSE <<>>)
    \o <<Step("gpt",
              IF cfg.agentic
              THEN Result(GptFallbackReplyText, model, NoneVal, GptOnlyNotice)
              ELSE Result(ReplyText, model, NoneVal, NoneVal))>>

\* lines 781-801 and 926-1246: the final history and the list of steps.
\* The settings read here are read nowhere else.
BuildChain(t, configs) ==
    /\ UNCHANGED <<request_counts, calls, agent_locals, search_query,
                   search_call>>
    /\ pc[t] = "build_chain"
    /\ \E cfg \in configs, default_system_prompt \in BOOLEAN,
          facts \in BOOLEAN :
         LET prompted == WithDefaultPrompt(conversation_history_for_api[t],
                                           default_system_prompt)
         IN /\ cfg.agentic \/ ~facts
            /\ conversation_history_for_api' =
                  [conversation_history_for_api EXCEPT ![t] =
                     IF cfg.agentic THEN WithFactsAndMetadata(prompted, facts)
                     ELSE prompted]
            /\ fallback_steps' = [fallback_steps EXCEPT ![t] =
                                    FallbackSteps(cfg, gpt_model[t])]
    /\ step_idx' = [step_idx EXCEPT ![t] = 1]
    /\ chain_result' = [chain_result EXCEPT ![t] = DefaultResult(gpt_model[t])]
    /\ pc' = Goto(t, "chain")
    /\ UNCHANGED <<stores, clock, turn_no, req, gpt_model, conversation_id,
                   conversation_item, gate_locals, aug_locals, history_split,
                   response, trace>>

\* ------------------------------------- try_fallback_chain (804-826)
StepNames == {"orchestrator", "agent", "azure-agent-service", "kernel", "gpt"}

\* lines 1200-1203: the raw completion step raises before calling the
\* model when the history is empty or does not end with a user entry
HistoryWellFormed(history) ==
    history # <<>> /\ history[Len(history)].role = "user"

CanSucceed(step, history) == step.name = "gpt" => HistoryWellFormed(history)

\* What a raising step raised: the raw completion step can fail with the
\* provider's context-length error; every other failure is "other".
StepErrors(step, history) ==
    IF step.name = "gpt" /\ HistoryWellFormed(history)
    THEN {"context_length", "other"} ELSE {"other"}

ContextLengthText ==
    "Sorry, the conversation history is too long even after summarization. Please start a new conversation or try a shorter message."

GenericFailureText ==
    "Sorry, I encountered an error generating the response. Details: <error>"

\* lines 1235-1240: the tuple gpt_error returns
gpt_error(e, model) ==
    IF e = "context_length"
    THEN Result(ContextLengthText, model, NoneVal, NoneVal)
    ELSE Result(GenericFailureText, model, NoneVal, NoneVal)

\* line 813: return step['on_success'](result)
OnSuccess(step) == step.result

\* Variant: a failure skips the step after the failing one.
AfterFailureSkipsOne(i) == i + 2

\* line 824: continue
AfterFailure(i) == i + 1

\* Variant: the exhausted chain loses the model label.
ExhaustedResultNoModel(model) ==
    Result(TerminalErrorText, NoneVal, NoneVal, NoneVal)

\* line 826
ExhaustedResult(model) == Result(TerminalErrorText, model, NoneVal, NoneVal)

\* One iteration of the for loop: the step is invoked and either returns,
\* which ends the chain, or raises, which is logged and moves on.
TryFallbackStep(t) ==
    /\ UNCHANGED <<request_counts, calls, agent_locals, search_query,
                   search_call>>
    /\ pc[t] = "chain"
    /\ step_idx[t] <= Len(fallback_steps[t])
    /\ LET step == fallback_steps[t][step_idx[t]] IN
       \/ /\ CanSucceed(step, conversation_history_for_api[t])
          /\ chain_result' = [chain_result EXCEPT ![t] = OnSuccess(step)]
          /\ trace' = Log(t, <<step.name>>)
          /\ pc' = Goto(t, "persist")
          /\ UNCHANGED step_idx
       \/ \E e \in StepErrors(step, conversation_history_for_api[t]) :
            \* lines 822-824: on_error(e) is called and what it returns
            \* (gpt_error(e, gpt_model[t]) for the last step) is dropped
            /\ step_idx' = [step_idx EXCEPT ![t] = AfterFailure(@)]
            /\ trace' = Log(t, <<step.name, "step_raised">>
                               \o (IF e = "context_length"
                                   THEN <<"context_length_error">>
                                   ELSE <<>>))
            /\ UNCHANGED <<chain_result, pc>>
    /\ UNCHANGED <<stores, clock, turn_no, req, gpt_model, conversation_id,
                   conversation_item, gate_locals, aug_locals, history_locals,
                   fallback_steps, response>>

\* The loop ran out of steps.
FallbackExhausted(t) ==
    /\ UNCHANGED <<request_counts, calls, agent_locals, search_query,
                   search_call>>
    /\ pc[t] = "chain"
    /\ step_idx[t] > Len(fallback_steps[t])
    /\ chain_result' = [chain_result EXCEPT ![t] =
                          ExhaustedResult(gpt_model[t])]
    /\ pc' = Goto(t, "persist")
    /\ UNCHANGED <<stores, clock, turn_no, req, gpt_model, conversation_id,
                   conversation_item, gate_locals, aug_locals, history_locals,
                   fallback_steps, step_idx, response, trace>>

\* Variant: the record is written with the last_updated it was read with.
PersistAssistantStaleTime(t) ==
    /\ UNCHANGED <<request_counts, calls, agent_locals, search_query,
                   search_call>>
    /\ pc[t] = "persist"
    /\ messages' = UpsertMessage(messages,
                       MessageDoc(t, "assistant", chain_result[t].text,
                                  FirstDraw)
                       @@ [hybrid_citations |-> hybrid_citations_list[t],
                           web_search_citations |-> bing_citations_list[t]])
    /\ conversations' = UpsertConversation(conversations,
                                           conversation_item[t])
    /\ clock' = clock + 1
    /\ trace' = Log(t, <<"upsert_assistant", "upsert_conversation">>)
    /\ Return(t, [status |-> 200, kind |-> "reply",
                  reply |-> chain_result[t].text, blocked |-> FALSE,
                  model |-> chain_result[t].model,
                  notice |-> chain_result[t].notice,
                  conversation_id |-> conversation_id[t],
                  conversation_title |-> conversation_item[t].title,
                  hybrid_citations |-> hybrid_citations_list[t],
                  web_search_citations |-> bing_citations_list[t]])
    /\ UNCHANGED <<safety_log, turn_no, req, gpt_model, conversation_id,
                   conversation_item, gate_locals, aug_locals,
                   history_locals, chain_locals>>

\* Variant: a chain that ran out of steps fails the turn.
PersistAssistantFailsExhausted(t) ==
    /\ UNCHANGED <<request_counts, calls, agent_locals, search_query,
                   search_call>>
    /\ pc[t] = "persist"
    /\ Return(t, ErrorResponse("generation_error"))
    /\ UNCHANGED <<stores, clock, conversation_item, trace, turn_no, req,
                   gpt_model, conversation_id, gate_locals, aug_locals,
                   history_locals, chain_locals>>

\* ------------------------------------- sections 7 and 8 (1281-1352)
PersistAssistant(t) ==
    /\ UNCHANGED <<request_counts, calls, agent_locals, search_query,
                   search_call>>
    /\ pc[t] = "persist"
    /\ messages' = UpsertMessage(messages,
                       MessageDoc(t, "assistant", chain_result[t].text,
                                  FirstDraw)
                       @@ [hybrid_citations |-> hybrid_citations_list[t],
                           web_search_citations |-> bing_citations_list[t]])
    /\ LET item == [conversation_item[t] EXCEPT !.last_updated = clock]
       IN /\ conversation_item' = [conversation_item EXCEPT ![t] = item]
          /\ conversations' = UpsertConversation(conversations, item)
    /\ clock' = clock + 1
    /\ trace' = Log(t, <<"upsert_assistant", "upsert_conversation">>)
    /\ Return(t, [status |-> 200, kind |-> "reply",
                  reply |-> chain_result[t].text, blocked |-> FALSE,
                  model |-> chain_result[t].model,
                  notice |-> chain_result[t].notice,
                  conversation_id |-> conversation_id[t],
                  conversation_title |-> conversation_item[t].title,
                  hybrid_citations |-> hybrid_citations_list[t],
                  web_search_citations |-> bing_citations_list[t]])
    /\ UNCHANGED <<safety_log, turn_no, req, gpt_model, conversation_id,
                   gate_locals, aug_locals, history_locals, chain_locals>>

\* The request is over: the worker takes the next one with fresh locals.
Release(t) ==
    /\ UNCHANGED <<request_counts, calls, search_call>>
    /\ search_query' = [search_query EXCEPT ![t] = NoneVal]
    /\ agent_locals' =
          [agent_locals EXCEPT ![t] =
              [all_agents |-> <<>>, agent_name_to_select |-> NoneVal,
               selected_agent |-> [name |-> NoneVal,
                                   default_agent |-> FALSE]]]
    /\ pc[t] = "done"
    /\ pc' = Goto(t, "idle")
    /\ req' = [req EXCEPT ![t] = NoRequest]
    /\ gpt_model' = [gpt_model EXCEPT ![t] = ""]
    /\ conversation_id' = [conversation_id EXCEPT ![t] = NoneVal]
    /\ conversation_item' = [conversation_item EXCEPT ![t] = NoItem]
    /\ cs_response' = [cs_response EXCEPT ![t] = NoVerdict]
    /\ blocked' = [blocked EXCEPT ![t] = FALSE]
    /\ search_results' = [search_results EXCEPT ![t] = <<>>]
    /\ system_messages_for_augmentation' =
          [system_messages_for_augmentation EXCEPT ![t] = <<>>]
    /\ hybrid_citations_list' = [hybrid_citations_list EXCEPT ![t] = <<>>]
    /\ bing_citations_list' = [bing_citations_list EXCEPT ![t] = <<>>]
    /\ conversation_history_for_api' =
          [conversation_history_for_api EXCEPT ![t] = <<>>]
    /\ history_split' = [history_split EXCEPT ![t] = NoSplit]
    /\ fallback_steps' = [fallback_steps EXCEPT ![t] = <<>>]
    /\ step_idx' = [step_idx EXCEPT ![t] = 1]
    /\ chain_result' = [chain_result EXCEPT ![t] = DefaultResult("")]
    /\ response' = [response EXCEPT ![t] = NoResponse]
    /\ trace' = [trace EXCEPT ![t] = <<>>]
    /\ UNCHANGED <<stores, clock, turn_no>>

\* ------------------------------------------------------ specification
\* Deployments without Semantic Kernel agents (enable_semantic_kernel or the
\* user's enable_agents off): the chain is the raw completion step alone.
AgentsDisabled ==
    {cfg \in ChainConfigs :
        ~cfg.agentic /\ ~cfg.multi_agent /\ ~cfg.orchestrator /\ ~cfg.agent
        /\ ~cfg.azure /\ ~cfg.kernel}

\* Plain text turns: no retrieval and no image generation requested.
PlainRequests(n) ==
    {r \in Requests(n) :
        ~r.hybrid_search /\ ~r.bing_search /\ ~r.image_generation}

\* One turn at a time: a turn is submitted when no other is running.
NoTurnRunning == \A u \in Turns : pc[u] = "idle"

Next ==
    \E t \in Turns :
        \/ NoTurnRunning /\ Submit(t, Requests(turn_no + 1))
        \/ PersistUserMessage(t)
        \/ SafetyCheck(t)
        \/ SafetyVerdict(t, {0})
        \/ HybridSearch(t, SearchOutcomes)
        \/ BingSearch(t)
        \/ ImageGeneration(t)
        \/ PrepareHistory(t)
        \/ BuildChain(t, AgentsDisabled)
        \/ TryFallbackStep(t)
        \/ FallbackExhausted(t)
        \/ PersistAssistant(t)
        \/ Release(t)

Spec == Init /\ [][Next]_vars

\* Plain text turns with content safety switched off, under every
\* configuration of the fallback chain.
NextChain ==
    \E t \in Turns :
        \/ NoTurnRunning /\ Submit(t, PlainRequests(turn_no + 1))
        \/ PersistUserMessage(t)
        \/ SafetyCheck(t) /\ UNCHANGED trace
        \/ HybridSearch(t, SearchOutcomes)
        \/ BingSearch(t)
        \/ ImageGeneration(t)
        \/ PrepareHistory(t)
        \/ BuildChain(t, ChainConfigs)
        \/ TryFallbackStep(t)
        \/ FallbackExhausted(t)
        \/ PersistAssistant(t)
        \/ Release(t)

SpecChain == Init /\ [][NextChain]_vars

\* Turns that ask for hybrid search alone, content safety switched off,
\* the raw completion step as the chain; the search returns up to
\* MaxCitedChunks chunks with page numbers among 1, 3 and 5.
SearchRequests(n) ==
    {r \in Requests(n) :
        r.hybrid_search /\ ~r.bing_search /\ ~r.image_generation}

CitedOutcomes ==
    [kind : {"ok"},
     chunks : SeqsUpTo([page_number : {1, 3, 5},
                        classification : Classifications], MaxCitedChunks)]

NextCite ==
    \E t \in Turns :
        \/ NoTurnRunning /\ Submit(t, SearchRequests(turn_no + 1))
        \/ PersistUserMessage(t)
        \/ SafetyCheck(t) /\ UNCHANGED trace
        \/ HybridSearch(t, CitedOutcomes)
        \/ BingSearch(t)
        \/ ImageGeneration(t)
        \/ PrepareHistory(t)
        \/ BuildChain(t, AgentsDisabled)
        \/ TryFallbackStep(t)
        \/ FallbackExhausted(t)
        \/ PersistAssistant(t)
        \/ Release(t)

SpecCite == Init /\ [][NextCite]_vars

\* Plain text turns whose message is empty, short, the text of the default
\* title, exactly TitleLimit characters long, or one character longer.
TitleRequests(n) ==
    [turn : {n}, user_id : Users,
     message : UserMessages
               \cup {<<>>, NewConversationTitle,
                     [i \in 1..TitleLimit |-> "a"],
                     [i \in 1..(TitleLimit + 1) |-> "b"]},
     conversation_id : ConvIds \cup {NoneVal},
     hybrid_search : {FALSE}, bing_search : {FALSE},
     image_generation : {FALSE}]

NextTitle ==
    \E t \in Turns :
        \/ NoTurnRunning /\ Submit(t, TitleRequests(turn_no + 1))
        \/ PersistUserMessage(t)
        \/ SafetyCheck(t) /\ UNCHANGED trace
        \/ HybridSearch(t, SearchOutcomes)
        \/ BingSearch(t)
        \/ ImageGeneration(t)
        \/ PrepareHistory(t)
        \/ BuildChain(t, AgentsDisabled)
        \/ TryFallbackStep(t)
        \/ FallbackExhausted(t)
        \/ PersistAssistant(t)
        \/ Release(t)

SpecTitle == Init /\ [][NextTitle]_vars

\* Two plain text turns on conversation c1 that may run at the same time,
\* the first with the message "hello", the second with "hi"; content
\* safety is switched off and the chain is the raw completion step.
RaceRequests(n) ==
    [turn : {n}, user_id : Users,
     message : {IF n = 1 THEN <<"h", "e", "l", "l", "o">> ELSE <<"h", "i">>},
     conversation_id : {ConvIdOrder[1]},
     hybrid_search : {FALSE}, bing_search : {FALSE},
     image_generation : {FALSE}]

NextRace ==
    \E t \in Turns :
        \/ Submit(t, RaceRequests(turn_no + 1))
        \/ PersistUserMessage(t)
        \/ SafetyCheck(t) /\ UNCHANGED trace
        \/ HybridSearch(t, SearchOutcomes)
        \/ BingSearch(t)
        \/ ImageGeneration(t)
        \/ PrepareHistory(t)
        \/ BuildChain(t, AgentsDisabled)
        \/ TryFallbackStep(t)
        \/ FallbackExhausted(t)
        \/ PersistAssistant(t)
        \/ Release(t)

SpecRace == Init /\ [][NextRace]_vars

\* Plain text turns, one at a time, in which a write of the block
\* recording may raise; the chain is the raw completion step.
NextFaults ==
    \E t \in Turns :
        \/ NoTurnRunning /\ Submit(t, PlainRequests(turn_no + 1))
        \/ PersistUserMessage(t)
        \/ SafetyCheck(t)
        \/ SafetyVerdict(t, 0..3)
        \/ HybridSearch(t, SearchOutcomes)
        \/ BingSearch(t)
        \/ ImageGeneration(t)
        \/ PrepareHistory(t)
        \/ BuildChain(t, AgentsDisabled)
        \/ TryFallbackStep(t)
        \/ FallbackExhausted(t)
        \/ PersistAssistant(t)
        \/ Release(t)

SpecFaults == Init /\ [][NextFaults]_vars

\* Plain text turns of two signed-in users, one at a time: the first turn
\* is submitted by u1, the second by u2; content safety is switched off
\* and the chain is the raw completion step.
NextOwners ==
    \E t \in Turns :
        \/ /\ NoTurnRunning
           /\ Submit(t, [turn : {turn_no + 1},
                         user_id : {IF turn_no = 0 THEN "u1" ELSE "u2"},
                         message : UserMessages,
                         conversation_id : ConvIds \cup {NoneVal},
                         hybrid_search : BOOLEAN, bing_search : {FALSE},
                         image_generation : {FALSE}])
        \/ PersistUserMessage(t)
        \/ SafetyCheck(t) /\ UNCHANGED trace
        \/ HybridSearch(t,
              [kind : {"ok"},
               chunks : SeqsUpTo([page_number : {1},
                                  classification :
                                      {NoneVal, "", "c1", "c2"}],
                                 MaxLabelledChunks),
               summary_for_search :
                   {"off", "text", "empty", "raised", "query_raised"}])
        \/ BingSearch(t)
        \/ ImageGeneration(t)
        \/ PrepareHistory(t)
        \/ BuildChain(t, AgentsDisabled)
        \/ TryFallbackStep(t)
        \/ FallbackExhausted(t)
        \/ PersistAssistant(t)
        \/ Release(t)

SpecOwners == Init /\ [][NextOwners]_vars

\* Turns on new conversations that may ask for hybrid and web search, one
\* at a time, with agents enabled (no multi-agent orchestration, no Azure
\* agent service) and content safety switched off.
NextBlocks ==
    \E t \in Turns :
        \/ /\ NoTurnRunning
           /\ Submit(t, {r \in Requests(turn_no + 1) :
                            /\ ~r.image_generation
                            /\ r.conversation_id = NoneVal})
        \/ PersistUserMessage(t)
        \/ SafetyCheck(t) /\ UNCHANGED trace
        \/ HybridSearch(t, SearchOutcomes)
        \/ BingSearch(t)
        \/ ImageGeneration(t)
        \/ PrepareHistory(t)
        \/ BuildChain(t, {cfg \in ChainConfigs :
                             cfg.agentic /\ ~cfg.multi_agent /\ ~cfg.azure})
        \/ TryFallbackStep(t)
        \/ FallbackExhausted(t)
        \/ PersistAssistant(t)
        \/ Release(t)

SpecBlocks == Init /\ [][NextBlocks]_vars

\* ------------------------- collect_conversation_metadata (SpecMeta)
\* functions_conversation_metadata.py.  A chunk id is the sequence of its
\* '_'-separated segments: <<"d1", "2">> is "d1_2", chunk 2 of document
\* "d1", and <<"d1", "2", "1">> is chunk 1 of document "d1_2".
ChunkIds == {<<"d1", "1">>, <<"d1", "2">>, <<"d1", "3">>, <<"d1", "2", "1">>}

\* What one call is given: the agent and the model used, the user, the
\* active group, the chunks hybrid search returned (each with its id and
\* the scope _determine_document_scope finds for it), the urls web search
\* returned and the keywords _extract_semantic_keywords finds in the user
\* message.  Here the documents are the user's own and no group is active.
MetaInputs ==
    [selected_agent : {NoneVal, AgentName},
     model_deployment : {"gpt-4o", "gpt-4.1"},
     user_id : Users,
     active_group_id : {NoneVal},
     search_results :
         SeqsUpTo([id : ChunkIds,
                   scope : [scope : {"personal"}, id : Users]],
                  MaxMetaChunks),
     web_search_results : {<<>>, <<"https://web">>},
     semantic_keywords : {<<>>, <<"hello">>}]

\* Calls that differ in the active group and in the scopes of the
\* retrieved documents: the user's own, a group's, a public workspace's.
ContextInputs ==
    [selected_agent : {NoneVal},
     model_deployment : {"gpt-4o"},
     user_id : Users,
     active_group_id : {NoneVal, "g1", "g2"},
     search_results :
         SeqsUpTo([id : {<<"d1", "1">>},
                   scope : [scope : {"personal"}, id : Users]
                           \cup [scope : {"group"}, id : {"g1"}]
                           \cup [scope : {"public"}, id : {"p1"}]],
                  MaxMetaChunks),
     web_search_results : {<<>>},
     semantic_keywords : {<<>>}]

Tag(category, value, user_id, document_id, chunk_ids) ==
    [category |-> category, value |-> value, user_id |-> user_id,
     document_id |-> document_id, chunk_ids |-> chunk_ids]

\* lines 130-140: the key a tag is filed under
TagKey(tag) ==
    IF tag.category = "participant" THEN <<"participant", tag.user_id>>
    ELSE IF tag.category = "document" THEN <<"document", tag.document_id>>
    ELSE <<tag.category, tag.value>>

HasKey(current_tags, key) ==
    \E i \in 1..Len(current_tags) : TagKey(current_tags[i]) = key

\* lines 130-140: the dict built from the stored tags; an assignment to a
\* key the dict has replaces the value and keeps the key's place
RECURSIVE ExistingTags(_)
ExistingTags(tags) ==
    IF tags = <<>> THEN <<>>
    ELSE LET current_tags == ExistingTags(SubSeq(tags, 1, Len(tags) - 1))
             tag == tags[Len(tags)]
         IN IF HasKey(current_tags, TagKey(tag))
            THEN [i \in 1..Len(current_tags) |->
                     IF TagKey(current_tags[i]) = TagKey(tag) THEN tag
                     ELSE current_tags[i]]
            ELSE Append(current_tags, tag)

AddAlways(current_tags, tag) == Append(current_tags, tag)

\* "if key not in current_tags: current_tags[key] = tag"
AddIfAbsent(current_tags, tag) ==
    IF HasKey(current_tags, TagKey(tag)) THEN current_tags
    ELSE Append(current_tags, tag)

RECURSIVE AddValueTags(_, _, _)
AddValueTags(current_tags, category, values) ==
    IF values = <<>> THEN current_tags
    ELSE AddValueTags(AddIfAbsent(current_tags,
                          Tag(category, Head(values), NoneVal, NoneVal, <<>>)),
                      category, Tail(values))

\* lines 206-210: the document a chunk belongs to
DocumentIdOf(chunk_id) ==
    IF Len(chunk_id) > 1 THEN SubSeq(chunk_id, 1, Len(chunk_id) - 1)
    ELSE chunk_id

AppendAll(lst, more) == lst \o more

\* "if x not in lst: lst.append(x)" for each x of more
RECURSIVE AppendNew(_, _)
AppendNew(lst, more) ==
    IF more = <<>> THEN lst
    ELSE AppendNew(IF \E i \in 1..Len(lst) : lst[i] = Head(more)
                   THEN lst ELSE Append(lst, Head(more)),
                   Tail(more))

\* lines 198-220: document_map, the chunk ids of each document in the
\* order the documents first appear
RECURSIVE DocumentMap(_)
DocumentMap(results) ==
    IF results = <<>> THEN <<>>
    ELSE LET before == DocumentMap(SubSeq(results, 1, Len(results) - 1))
             chunk_id == results[Len(results)].id
             document_id == DocumentIdOf(chunk_id)
         IN IF \E i \in 1..Len(before) : before[i].document_id = document_id
            THEN [i \in 1..Len(before) |->
                     IF before[i].document_id = document_id
                     THEN [before[i] EXCEPT
                              !.chunk_ids = AppendNew(@, <<chunk_id>>)]
                     ELSE before[i]]
            ELSE Append(before, [document_id |-> document_id,
                                 chunk_ids |-> <<chunk_id>>])

\* lines 258-345: one document of document_map is merged into its tag or
\* gets a new tag
RECURSIVE AddDocumentTags(_, _)
AddDocumentTags(current_tags, document_map) ==
    IF document_map = <<>> THEN current_tags
    ELSE LET doc_info == Head(document_map)
             doc_key == <<"document", doc_info.document_id>>
             merged ==
                 IF HasKey(current_tags, doc_key)
                 THEN [i \in 1..Len(current_tags) |->
                          IF TagKey(current_tags[i]) = doc_key
                          THEN [current_tags[i] EXCEPT
                                   !.chunk_ids =
                                       AppendNew(@, doc_info.chunk_ids)]
                          ELSE current_tags[i]]
                 ELSE Append(current_tags,
                             Tag("document", NoneVal, NoneVal,
                                 doc_info.document_id, doc_info.chunk_ids))
         IN AddDocumentTags(merged, Tail(document_map))

\* lines 91-113: the primary context of this call
PrimaryContext(in) ==
    IF in.active_group_id # NoneVal
    THEN [type |-> "primary", scope |-> "group", id |-> in.active_group_id]
    ELSE [type |-> "primary", scope |-> "personal", id |-> in.user_id]

\* Variant: the primary context is appended at each call.
AppendPrimaryContext(context, in) == Append(context, PrimaryContext(in))

\* lines 115-120: the first primary entry is updated in place, or the
\* primary context is appended when there is none
WithPrimaryContext(context, in) ==
    LET places == {i \in 1..Len(context) : context[i].type = "primary"}
    IN IF places # {}
       THEN [context EXCEPT
                ![CHOOSE i \in places : \A j \in places : i <= j] =
                    PrimaryContext(in)]
       ELSE Append(context, PrimaryContext(in))

\* lines 226-233 and 236-261: the scopes of the retrieved documents that
\* differ from the primary context become secondary contexts, unless a
\* secondary context with that id is already there.  The scopes are taken
\* in the order of their first appearance in the search results.
WithSecondaryContexts(context, in) ==
    LET different ==
            SelectSeq([i \in 1..Len(in.search_results) |->
                          in.search_results[i].scope],
                      LAMBDA s : s.scope # PrimaryContext(in).scope
                                 \/ s.id # PrimaryContext(in).id)
        existing_secondary_ids ==
            {context[i].id : i \in {j \in 1..Len(context) :
                                       context[j].type = "secondary"}}
        new == SelectSeq(AppendNew(<<>>, different),
                         LAMBDA s : s.id \notin existing_secondary_ids)
    IN context \o [i \in 1..Len(new) |->
                      [type |-> "secondary", scope |-> new[i].scope,
                       id |-> new[i].id]]

\* get_current_user_info().get("userId", user_id): the signed-in user is
\* the user the caller passes, as the fallback branch (lines 173-180) has it.
CurrentUserId(user_id) == user_id

\* lines 127-387
CollectTags(tags, in) ==
    LET existing == ExistingTags(tags)
        with_agent == IF in.selected_agent # NoneVal
                      THEN AddIfAbsent(existing,
                               Tag("agent", in.selected_agent, NoneVal,
                                   NoneVal, <<>>))
                      ELSE existing
        with_model == AddIfAbsent(with_agent,
                          Tag("model", in.model_deployment, NoneVal,
                              NoneVal, <<>>))
        with_participant ==
            AddIfAbsent(with_model,
                Tag("participant", NoneVal, CurrentUserId(in.user_id),
                    NoneVal, <<>>))
        with_documents ==
            AddDocumentTags(with_participant, DocumentMap(in.search_results))
        with_web == AddValueTags(with_documents, "web",
                                 in.web_search_results)
    IN AddValueTags(with_web, "semantic", in.semantic_keywords)

collect_conversation_metadata(conversation_item_in, in) ==
    [conversation_item_in EXCEPT
        !.context = WithSecondaryContexts(WithPrimaryContext(@, in), in),
        !.tags = CollectTags(@, in)]

\* One application of the collector to the conversation item a turn holds.
CollectMetadata(t, inputs, bound) ==
    /\ UNCHANGED <<request_counts, calls, agent_locals, search_query,
                   search_call>>
    /\ Len(trace[t]) < bound
    /\ \E in \in inputs :
         conversation_item' =
            [conversation_item EXCEPT ![t] =
                collect_conversation_metadata(@, in)]
    /\ trace' = Log(t, <<"collect_conversation_metadata">>)
    /\ UNCHANGED <<stores, clock, turn_no, pc, req, gpt_model,
                   conversation_id, gate_locals, aug_locals, history_locals,
                   chain_locals, response>>

NextMeta == CollectMetadata("w1", MetaInputs, MaxCollects)

SpecMeta == Init /\ [][NextMeta]_vars

NextContext == CollectMetadata("w1", ContextInputs, MaxContextCollects)

SpecContext == Init /\ [][NextContext]_vars

\* ------------------------------------------------ message ids (SpecIds)
\* Two turns at work on conversations at the same time, reduced to the
\* message writes they perform: each write builds its id from the
\* conversation, the role, the second on the clock and a random draw.
MessageRoles == {"user", "system", "assistant"}

Draws == {FirstDraw, LastDraw}

WriteEvent(role) ==
    CASE role = "user" -> "upsert_user"
      [] role = "safety" -> "upsert_safety"
      [] role = "image" -> "upsert_image"
      [] role = "system" -> "upsert_system"
      [] role = "assistant" -> "upsert_assistant"

TurnOf(t) == IF t = "w1" THEN 1 ELSE 2

\* time.time() moves on to the next second.
TickSecond ==
    /\ UNCHANGED <<request_counts, calls, agent_locals, search_query,
                   search_call>>
    /\ clock < MaxSecond
    /\ clock' = clock + 1
    /\ UNCHANGED <<stores, turn_no, pc, req, gpt_model, conversation_id,
                   conversation_item, gate_locals, aug_locals, history_locals,
                   chain_locals, response, trace>>

\* One message write of a turn (lines 217-227, 310-321, 607-619, 714-726,
\* 1281-1296).
WriteMessage(t) ==
    /\ UNCHANGED <<request_counts, calls, agent_locals, search_query,
                   search_call>>
    /\ Len(trace[t]) < MaxWrites
    /\ \E c \in ConvIds, role \in MessageRoles, draw \in Draws :
         /\ messages' = UpsertMessage(messages,
                            Doc(c, role, "hello", TurnOf(t), clock, draw))
         /\ trace' = Log(t, <<WriteEvent(role)>>)
    /\ UNCHANGED <<conversations, safety_log, clock, turn_no, pc, req,
                   gpt_model, conversation_id, conversation_item, gate_locals,
                   aug_locals, history_locals, chain_locals, response>>

NextIds == TickSecond \/ \E t \in Turns : WriteMessage(t)

SpecIds == Init /\ [][NextIds]_vars

\* --------------------------------------- agent selection (SpecAgents)
\* Variant: an agent flagged default is preferred to the configured name.
SelectedAgentDefaultFirst(all_agents, agent_name_to_select) ==
    LET named == {i \in 1..Len(all_agents) :
                     /\ agent_name_to_select # NoneVal
                     /\ all_agents[i].name = agent_name_to_select}
        flagged == {i \in 1..Len(all_agents) : all_agents[i].default_agent}
        first(S) == CHOOSE i \in S : \A j \in S : i <= j
    IN  IF all_agents = <<>> THEN [name |-> NoneVal, default_agent |-> FALSE]
        ELSE IF flagged # {} THEN all_agents[first(flagged)]
        ELSE IF named # {} THEN all_agents[first(named)]
        ELSE all_agents[1]

\* lines 972-994: the first agent with the configured name, else the
\* first agent with default_agent set, else the first agent; with no
\* agent loaded selected_agent stays None (935), the agent with no name.
SelectedAgent(all_agents, agent_name_to_select) ==
    LET named == {i \in 1..Len(all_agents) :
                     /\ agent_name_to_select # NoneVal
                     /\ all_agents[i].name = agent_name_to_select}
        flagged == {i \in 1..Len(all_agents) : all_agents[i].default_agent}
        first(S) == CHOOSE i \in S : \A j \in S : i <= j
    IN  IF all_agents = <<>> THEN [name |-> NoneVal, default_agent |-> FALSE]
        ELSE IF named # {} THEN all_agents[first(named)]
        ELSE IF flagged # {} THEN all_agents[first(flagged)]
        ELSE all_agents[1]

\* lines 959-1000, with agents enabled: the loaded agents and the
\* configured name (the user's selected_agent in per-user mode, the name
\* of global_selected_agent otherwise; None when nothing is configured)
\* decide selected_agent.  The step is logged (1000).
SelectAgent(t) ==
    /\ pc[t] = "build_chain"
    /\ \A i \in 1..Len(trace[t]) : trace[t][i] # "select_agent"
    /\ \E all_agents \in SeqsUpTo([name : {"a", "b"},
                                    default_agent : BOOLEAN], MaxAgents),
          agent_name_to_select \in {NoneVal, "a", "b", "c"} :
         agent_locals' = [agent_locals EXCEPT ![t] =
            [all_agents |-> all_agents,
             agent_name_to_select |-> agent_name_to_select,
             selected_agent |->
                 SelectedAgent(all_agents, agent_name_to_select)]]
    /\ trace' = Log(t, <<"select_agent">>)
    /\ UNCHANGED <<stores, clock, turn_no, pc, req, gpt_model,
                   conversation_id, conversation_item, gate_locals,
                   aug_locals, history_locals, chain_locals, response,
                   request_counts, calls, search_query, search_call>>

\* Plain text turns on new conversations, one at a time, with agents
\* enabled, no multi-agent orchestration and no Azure agent service; the
\* agent step is in the chain when an agent was selected.
NextAgents ==
    \E t \in Turns :
        \/ /\ NoTurnRunning
           /\ Submit(t, {r \in PlainRequests(turn_no + 1) :
                            r.conversation_id = NoneVal})
        \/ PersistUserMessage(t)
        \/ SafetyCheck(t) /\ UNCHANGED trace
        \/ HybridSearch(t, SearchOutcomes)
        \/ BingSearch(t)
        \/ ImageGeneration(t)
        \/ PrepareHistory(t)
        \/ SelectAgent(t)
        \/ /\ \E i \in 1..Len(trace[t]) : trace[t][i] = "select_agent"
           /\ BuildChain(t, {cfg \in ChainConfigs :
                               /\ cfg.agentic /\ ~cfg.multi_agent
                               /\ ~cfg.azure /\ ~cfg.orchestrator
                               /\ cfg.agent =
                                    (agent_locals[t].selected_agent.name
                                       # NoneVal)})
        \/ TryFallbackStep(t)
        \/ FallbackExhausted(t)
        \/ PersistAssistant(t)
        \/ Release(t)

SpecAgents == Init /\ [][NextAgents]_vars

\* --------------------------------------- store failures (SpecTermination)
\* The upserts at 190, 207, 226, 235, 1298 and 1331 are in no try block:
\* when the first write of the user-message step (226) or of the
\* persistence step (1298) raises, the exception leaves chat_api and the
\* framework answers the request with its 500 page; nothing is written.
StoreWriteRaises(t) ==
    /\ UNCHANGED <<request_counts, calls, agent_locals, search_query,
                   search_call>>
    /\ pc[t] \in {"user_message", "persist"}
    /\ trace' = Log(t, <<"upsert_raised">>)
    /\ Return(t, ErrorResponse("unhandled_exception"))
    /\ UNCHANGED <<stores, clock, turn_no, req, gpt_model, conversation_id,
                   conversation_item, gate_locals, aug_locals,
                   history_locals, chain_locals>>

\* Turns in which every external call returns or raises: a worker that has
\* taken a request runs the handler to its end (weak fairness of the steps
\* of the turn); requests arrive when they arrive.
SpecTermination ==
    /\ Init
    /\ [][\E t \in Turns :
             \/ /\ NoTurnRunning
                /\ Submit(t, {r \in Requests(turn_no + 1) :
                                 turn_no = 0 \/ r \in PlainRequests(2)})
             \/ PersistUserMessage(t)
             \/ SafetyCheck(t)
             \/ SafetyVerdict(t, {0})
             \/ HybridSearch(t, SearchOutcomes)
             \/ BingSearch(t)
             \/ ImageGeneration(t)
             \/ PrepareHistory(t)
             \/ BuildChain(t, AgentsDisabled)
             \/ TryFallbackStep(t)
             \/ FallbackExhausted(t)
             \/ PersistAssistant(t)
             \/ StoreWriteRaises(t)
             \/ Release(t)]_vars
    /\ \A t \in Turns :
          WF_vars(\/ PersistUserMessage(t)
                  \/ SafetyCheck(t)
                  \/ SafetyVerdict(t, {0})
                  \/ HybridSearch(t, SearchOutcomes)
                  \/ BingSearch(t)
                  \/ ImageGeneration(t)
                  \/ PrepareHistory(t)
                  \/ BuildChain(t, AgentsDisabled)
                  \/ TryFallbackStep(t)
                  \/ FallbackExhausted(t)
                  \/ PersistAssistant(t)
                  \/ StoreWriteRaises(t)
                  \/ Release(t))

\* ------------------------------------------- stored files (SpecFiles)
\* Conversation c1 as other routes left it: its record, and up to
\* MaxStored messages, among them files put there by the upload route with
\* short contents and with contents of 1000 and of 1001 characters.
InitFiles ==
    /\ conversations =
          [c \in {ConvIdOrder[1]} |->
              NewConversationItem(ConvIdOrder[1], "u1", 0)]
    /\ messages \in
          UNION {
            {[i \in 1..k |->
                 IF roles[i] = "file"
                 THEN Doc(ConvIdOrder[1], "file", NoneVal, 0, 0,
                          FirstDraw + i)
                      @@ [filename |-> "notes.txt",
                          file_content |->
                              [j \in 1..sizes[i] |->
                                  IF j % 2 = 1 THEN "a" ELSE "b"]]
                 ELSE Doc(ConvIdOrder[1], roles[i], <<"o", "l", "d">>, 0, 0,
                          FirstDraw + i)] :
               roles \in [1..k -> {"user", "assistant", "file", "image",
                                    "safety", "blocked"}],
               sizes \in [1..k -> {2,
                                   max_file_content_length_in_history,
                                   max_file_content_length_in_history + 1}]}
            : k \in 0..MaxStored}
    /\ safety_log = <<>>
    /\ clock = 1
    /\ turn_no = 0
    /\ pc = [t \in Turns |-> "idle"]
    /\ req = [t \in Turns |-> NoRequest]
    /\ gpt_model = [t \in Turns |-> ""]
    /\ conversation_id = [t \in Turns |-> NoneVal]
    /\ conversation_item = [t \in Turns |-> NoItem]
    /\ cs_response = [t \in Turns |-> NoVerdict]
    /\ blocked = [t \in Turns |-> FALSE]
    /\ search_results = [t \in Turns |-> <<>>]
    /\ system_messages_for_augmentation = [t \in Turns |-> <<>>]
    /\ hybrid_citations_list = [t \in Turns |-> <<>>]
    /\ bing_citations_list = [t \in Turns |-> <<>>]
    /\ conversation_history_for_api = [t \in Turns |-> <<>>]
    /\ history_split = [t \in Turns |-> NoSplit]
    /\ fallback_steps = [t \in Turns |-> <<>>]
    /\ step_idx = [t \in Turns |-> 1]
    /\ chain_result = [t \in Turns |-> DefaultResult("")]
    /\ response = [t \in Turns |-> NoResponse]
    /\ trace = [t \in Turns |-> <<>>]
    /\ request_counts = <<>>
    /\ calls = [ip \in ClientIps |-> <<>>]
    /\ search_query = [t \in Turns |-> NoneVal]
    /\ search_call = [kind |-> "ok", doc_scope |-> "all", top_n |-> 12,
                      chunks |-> <<>>, group_chunks |-> <<>>,
                      results |-> <<>>, returned |-> FALSE]
    /\ agent_locals =
          [t \in Turns |->
              [all_agents |-> <<>>, agent_name_to_select |-> NoneVal,
               selected_agent |-> [name |-> NoneVal,
                                   default_agent |-> FALSE]]]

\* One plain turn on the conversation.
SpecFiles ==
    /\ InitFiles
    /\ [][\E t \in Turns :
             \/ /\ NoTurnRunning
                /\ turn_no = 0
                /\ Submit(t, {r \in PlainRequests(1) :
                                 r.conversation_id = ConvIdOrder[1]})
             \/ PersistUserMessage(t)
             \/ SafetyCheck(t)
             \/ SafetyVerdict(t, {0})
             \/ HybridSearch(t, SearchOutcomes)
             \/ BingSearch(t)
             \/ ImageGeneration(t)
             \/ PrepareHistory(t)
             \/ BuildChain(t, AgentsDisabled)
             \/ TryFallbackStep(t)
             \/ FallbackExhausted(t)
             \/ PersistAssistant(t)
             \/ Release(t)]_vars

\* ------------------------------------------ hybrid_search (SpecSearch)
\* One call of hybrid_search (functions_search.py 50-315) on its own: the
\* scope and top_n asked for, what the embedding and the two indexes do,
\* and the list returned.
InitSearch ==
    /\ search_call \in
          [kind : {"ok", "embedding_raised", "search_raised"},
           doc_scope : {"all", "personal", "group", "public"},
           top_n : 1..MaxSearchTopN,
           chunks : SeqsUpTo([page_number : {1},
                              classification : {NoneVal},
                              group_id : {NoneVal},
                              score : 1..MaxScore], MaxIndexResults),
           group_chunks : SeqsUpTo([page_number : {1},
                                    classification : {NoneVal},
                                    group_id : {"g1"},
                                    score : 1..MaxScore], MaxIndexResults),
           results : {<<>>},
           returned : {FALSE}]
    /\ conversations = <<>>
    /\ messages = <<>>
    /\ safety_log = <<>>
    /\ clock = 0
    /\ turn_no = 0
    /\ pc = [t \in Turns |-> "idle"]
    /\ req = [t \in Turns |-> NoRequest]
    /\ gpt_model = [t \in Turns |-> ""]
    /\ conversation_id = [t \in Turns |-> NoneVal]
    /\ conversation_item = [t \in Turns |-> NoItem]
    /\ cs_response = [t \in Turns |-> NoVerdict]
    /\ blocked = [t \in Turns |-> FALSE]
    /\ search_results = [t \in Turns |-> <<>>]
    /\ system_messages_for_augmentation = [t \in Turns |-> <<>>]
    /\ hybrid_citations_list = [t \in Turns |-> <<>>]
    /\ bing_citations_list = [t \in Turns |-> <<>>]
    /\ conversation_history_for_api = [t \in Turns |-> <<>>]
    /\ history_split = [t \in Turns |-> NoSplit]
    /\ fallback_steps = [t \in Turns |-> <<>>]
    /\ step_idx = [t \in Turns |-> 1]
    /\ chain_result = [t \in Turns |-> DefaultResult("")]
    /\ response = [t \in Turns |-> NoResponse]
    /\ trace = [t \in Turns |-> <<>>]
    /\ request_counts = <<>>
    /\ calls = [ip \in ClientIps |-> <<>>]
    /\ search_query = [t \in Turns |-> NoneVal]
    /\ agent_locals =
          [t \in Turns |->
              [all_agents |-> <<>>, agent_name_to_select |-> NoneVal,
               selected_agent |-> [name |-> NoneVal,
                                   default_agent |-> FALSE]]]

\* The call returns.
SearchCall ==
    /\ ~search_call.returned
    /\ search_call' =
          [search_call EXCEPT
              !.results = hybrid_search(search_call, search_call.top_n),
              !.returned = TRUE]
    /\ UNCHANGED <<stores, clock, turn_no, pc, req, gpt_model,
                   conversation_id, conversation_item, gate_locals,
                   aug_locals, history_locals, chain_locals, response, trace,
                   request_counts, calls, agent_locals, search_query>>

SpecSearch == InitSearch /\ [][SearchCall]_vars

\* ------------------------------------- swagger rate limit (SpecSwagger)
\* swagger_wrapper.py, SwaggerCache: each call of get_spec passes through
\* _is_rate_limited, whose body runs under _rate_limit_lock.
rate_limit_requests == 30
rate_limit_window == 60

\* Variant: a client is refused only once its count is above the limit.
AboveLimit(count) == count > rate_limit_requests

\* line 152: if count >= self.rate_limit_requests
OverLimit(count) == count >= rate_limit_requests

\* time.time() moves on by half a window, or by a second more.
AdvanceTime ==
    /\ \E d \in {rate_limit_window \div 2, rate_limit_window \div 2 + 1} :
         /\ clock + d <= MaxTime
         /\ clock' = clock + d
    /\ UNCHANGED <<stores, turn_no, pc, req, gpt_model, conversation_id,
                   conversation_item, gate_locals, aug_locals, history_locals,
                   chain_locals, response, trace, request_counts, calls,
                   agent_locals, search_query, search_call>>

\* get_spec is called for a client: the thread enters _is_rate_limited,
\* takes _rate_limit_lock (no other thread is inside the body), reads the
\* clock and the client's counter (137-144).
get_spec(t) ==
    /\ pc[t] = "idle"
    /\ \A u \in Turns \ {t} : pc[u] # "rate_limit"
    /\ \E client_ip \in ClientIps :
         /\ Len(calls[client_ip])
              + Cardinality({u \in Turns : /\ pc[u] = "rate_limit"
                                           /\ req[u].client_ip = client_ip})
              < (IF client_ip = "ip1" THEN MaxCalls ELSE MaxOtherCalls)
         /\ req' = [req EXCEPT ![t] =
                      [client_ip |-> client_ip,
                       current_time |-> clock,
                       known |-> client_ip \in DOMAIN request_counts,
                       entry |-> IF client_ip \in DOMAIN request_counts
                                 THEN request_counts[client_ip]
                                 ELSE [count |-> 0, reset_time |-> 0]]]
    /\ pc' = Goto(t, "rate_limit")
    /\ UNCHANGED <<stores, clock, turn_no, gpt_model, conversation_id,
                   conversation_item, gate_locals, aug_locals, history_locals,
                   chain_locals, response, trace, request_counts, calls,
                   agent_locals, search_query, search_call>>

\* The rest of _is_rate_limited (140-157) and the answer of get_spec
\* (164-184): 429 when limited; otherwise the specification is served,
\* from the cache or generated, which touches no counter.
is_rate_limited(t) ==
    /\ pc[t] = "rate_limit"
    /\ LET client_ip == req[t].client_ip
           current_time == req[t].current_time
           restart == \/ ~req[t].known
                      \/ current_time > req[t].entry.reset_time
           limited == ~restart /\ OverLimit(req[t].entry.count)
       IN /\ request_counts' =
                IF restart
                THEN (client_ip :> [count |-> 1,
                                    reset_time |-> current_time
                                                   + rate_limit_window])
                     @@ request_counts
                ELSE IF limited THEN request_counts
                ELSE [request_counts EXCEPT ![client_ip].count = @ + 1]
          /\ calls' = [calls EXCEPT ![client_ip] =
                         Append(@, [time |-> current_time,
                                    status |-> IF limited THEN 429 ELSE 200])]
    /\ pc' = Goto(t, "idle")
    /\ req' = [req EXCEPT ![t] = NoRequest]
    /\ UNCHANGED <<stores, clock, turn_no, gpt_model, conversation_id,
                   conversation_item, gate_locals, aug_locals, history_locals,
                   chain_locals, response, trace, agent_locals,
                   search_query, search_call>>

NextSwagger ==
    \/ AdvanceTime
    \/ \E t \in Turns : get_spec(t) \/ is_rate_limited(t)

SpecSwagger == Init /\ [][NextSwagger]_vars

\* ------------------------------------------------------------ properties
\* What the turn did, read off its trace.
ChainEvents(t) ==
    SelectSeq(trace[t], LAMBDA e : e \in StepNames \cup {"step_raised"})

\* The chain events of a run in which the first n steps were invoked once
\* each, in list order, and raised.
RECURSIVE RaisedPrefix(_, _)
RaisedPrefix(steps, n) ==
    IF n = 0 THEN <<>>
    ELSE RaisedPrefix(steps, n - 1) \o <<steps[n].name, "step_raised">>

MessageWrites ==
    {"upsert_user", "upsert_safety", "upsert_image", "upsert_system",
     "upsert_assistant"}

MsgWrites(t) == SelectSeq(trace[t], LAMBDA e : e \in MessageWrites)

RoleWritten(e) ==
    CASE e = "upsert_user" -> "user"
      [] e = "upsert_safety" -> "safety"
      [] e = "upsert_image" -> "image"
      [] e = "upsert_system" -> "system"
      [] e = "upsert_assistant" -> "assistant"

\* The messages the running turn has stored, oldest first.
StoredBy(t) == SelectSeq(messages, LAMBDA m : m.turn = req[t].turn)

StoredWithRole(t, role) == SelectSeq(StoredBy(t), LAMBDA m : m.role = role)

Occurs(t, e) == \E i \in 1..Len(trace[t]) : trace[t][i] = e

\* The trace from the write of the user message on.
SinceUserWrite(t) ==
    IF Occurs(t, "upsert_user")
    THEN LET first == CHOOSE i \in 1..Len(trace[t]) :
                          /\ trace[t][i] = "upsert_user"
                          /\ \A j \in 1..(i - 1) : trace[t][j] # "upsert_user"
         IN SubSeq(trace[t], first, Len(trace[t]))
    ELSE <<>>

\* C1 (fallback chain order): when steps 1..j-1 raise and step j returns,
\* the executor's result is the tuple of step j's success transform, steps
\* 1..j were invoked exactly once each in list order and no later step was
\* invoked; while the loop runs, step N is reached only after steps 1..N-1
\* were each invoked once and raised.
C1_FallbackChainOrder ==
    \A t \in Turns :
        LET steps == fallback_steps[t]
            events == ChainEvents(t)
        IN /\ pc[t] = "chain" =>
                 /\ step_idx[t] - 1 <= Len(steps)
                 /\ events = RaisedPrefix(steps, step_idx[t] - 1)
           /\ (pc[t] \in {"persist", "done"} /\ steps # <<>>) =>
                 \/ \E j \in 1..Len(steps) :
                       /\ events = RaisedPrefix(steps, j - 1)
                                      \o <<steps[j].name>>
                       /\ chain_result[t] = steps[j].result
                 \/ events = RaisedPrefix(steps, Len(steps))

\* A chain of three or more steps whose first step raised and whose second
\* step returned.
C1_Witness ==
    \E t \in Turns :
        /\ pc[t] = "persist"
        /\ Len(fallback_steps[t]) >= 3
        /\ ChainEvents(t) = <<fallback_steps[t][1].name, "step_raised",
                              fallback_steps[t][2].name>>
        /\ chain_result[t] = fallback_steps[t][2].result

\* C2 (exhaustion): when every step of the chain raised, the executor
\* returns the text "Sorry, I encountered an error.", the model label
\* resolved at the start of the turn (gpt_model), and no agent mode and no
\* notice; that is what the turn answers.
C2_ExhaustedChainResult ==
    \A t \in Turns :
        (/\ pc[t] \in {"persist", "done"}
         /\ fallback_steps[t] # <<>>
         /\ ChainEvents(t) =
               RaisedPrefix(fallback_steps[t], Len(fallback_steps[t])))
        => /\ chain_result[t] = [text |-> "Sorry, I encountered an error.",
                                 model |-> gpt_model[t],
                                 mode |-> NoneVal, notice |-> NoneVal]
           /\ pc[t] = "done" =>
                 /\ response[t].reply = "Sorry, I encountered an error."
                 /\ response[t].model = gpt_model[t]

\* A turn answered after all of two or more steps raised.
C2_Witness ==
    \E t \in Turns :
        /\ pc[t] = "done"
        /\ Len(fallback_steps[t]) >= 2
        /\ ChainEvents(t) =
              RaisedPrefix(fallback_steps[t], Len(fallback_steps[t]))
        /\ response[t].reply = "Sorry, I encountered an error."

\* C3 (blocking rule): once the checker has answered, the turn is marked
\* blocked exactly when some category's severity is 4 or more or the
\* blocklist match list is not empty.
C3_BlockingRule ==
    \A t \in Turns :
        pc[t] = "safety_verdict" =>
            LET cats == cs_response[t].categories_analysis IN
            blocked[t] <=>
                \/ \E i \in 1..Len(cats) : cats[i] >= 4
                \/ Len(cs_response[t].blocklists_match) > 0

\* A verdict with severities 4 and 3 and no blocklist match: blocked.
C3_Witness ==
    \E t \in Turns :
        /\ pc[t] = "safety_verdict"
        /\ cs_response[t].categories_analysis = <<4, 3>>
        /\ cs_response[t].blocklists_match = <<>>
        /\ blocked[t]

ProviderCalls ==
    {"analyze_text", "hybrid_search", "bing_search", "images_generate",
     "summarize"} \cup StepNames

\* C5 (user message first): every call of the safety checker, a retrieval
\* provider, the image provider, the summarizer or a chain step comes after
\* the write of the turn's user message, which is then in the store.
C5_UserMessageFirst ==
    \A t \in Turns :
        \A i \in 1..Len(trace[t]) :
            trace[t][i] \in ProviderCalls =>
                /\ \E j \in 1..(i - 1) : trace[t][j] = "upsert_user"
                /\ Len(StoredWithRole(t, "user")) = 1

\* A turn that called the checker, hybrid search, the summarizer and the
\* completion step.
C5_Witness ==
    \E t \in Turns :
        /\ Occurs(t, "analyze_text")
        /\ Occurs(t, "hybrid_search")
        /\ Occurs(t, "summarize")
        /\ Occurs(t, "gpt")

UserThenSystems(w) ==
    /\ w # <<>>
    /\ w[1] = "upsert_user"
    /\ \A i \in 2..Len(w) : w[i] = "upsert_system"

ReplyWrites(w) ==
    /\ Len(w) >= 2
    /\ w[Len(w)] = "upsert_assistant"
    /\ UserThenSystems(SubSeq(w, 1, Len(w) - 1))

BoundedEntries(t) ==
    SelectSeq(conversation_history_for_api[t],
              LAMBDA e : e.src \in {"recent", "backstop"})

SearchFailures == {"generate_embedding_raised", "search_raised"}

\* C8 (hybrid search failure is fatal): when the embedding or the search
\* provider fails during hybrid search, the turn ends with a 500 error, no
\* chain step runs and no assistant message is stored.
C8_SearchFailureIsFatal ==
    \A t \in Turns :
        (\E e \in SearchFailures : Occurs(t, e)) =>
            /\ pc[t] = "done"
            /\ response[t].status = 500
            /\ ChainEvents(t) = <<>>
            /\ StoredWithRole(t, "assistant") = <<>>

\* C9 (checker fail-open): when the safety checker raises, nothing is
\* written to the safety log, no safety message is stored, the turn is not
\* blocked and goes on to retrieval and generation; it ends with one of
\* the results a cleared turn ends with.
C9_CheckerFailOpen ==
    \A t \in Turns :
        Occurs(t, "analyze_text_raised") =>
            /\ ~blocked[t]
            /\ ~Occurs(t, "upsert_safety_log")
            /\ ~Occurs(t, "upsert_safety")
            /\ \A i \in 1..Len(safety_log) : safety_log[i].turn # req[t].turn
            /\ StoredWithRole(t, "safety") = <<>>
            /\ pc[t] \in {"hybrid", "bing", "image", "history",
                          "build_chain", "chain", "persist", "done"}
            /\ pc[t] = "done" =>
                  response[t].kind \in {"reply", "image", "hybrid_error",
                                        "image_error", "history_error"}

\* A turn whose checker raised and that was answered by the completion
\* step after hybrid search.
C9_Witness ==
    \E t \in Turns :
        /\ Occurs(t, "analyze_text_raised")
        /\ Occurs(t, "hybrid_search")
        /\ Occurs(t, "gpt")
        /\ pc[t] = "done"
        /\ response[t].kind = "reply"
        /\ response[t].blocked = FALSE

\* C10 (generation failures never fail the turn): once the chain has been
\* built the turn returns no error; it ends with status 200, blocked =
\* false and the text the executor returned, and has stored exactly one
\* assistant message, which carries that text.
C10_GenerationNeverFailsTurn ==
    \A t \in Turns :
        /\ pc[t] \in {"chain", "persist"} => response[t] = NoResponse
        /\ (pc[t] = "done" /\ fallback_steps[t] # <<>>) =>
              /\ response[t].status = 200
              /\ response[t].kind = "reply"
              /\ response[t].blocked = FALSE
              /\ response[t].reply = chain_result[t].text
              /\ Len(StoredWithRole(t, "assistant")) = 1
              /\ StoredWithRole(t, "assistant")[1].content = response[t].reply

\* A chain of three or more steps whose first two raised: the turn is
\* answered 200 with the third step's text.
C10_Witness ==
    \E t \in Turns :
        /\ pc[t] = "done"
        /\ Len(fallback_steps[t]) >= 3
        /\ ChainEvents(t) = RaisedPrefix(fallback_steps[t], 2)
                               \o <<fallback_steps[t][3].name>>
        /\ response[t].status = 200
        /\ response[t].reply = fallback_steps[t][3].result.text
        /\ Len(StoredWithRole(t, "assistant")) = 1

\* C11 (raw-completion failure messages): when the raw completion step,
\* the last of the chain, fails with a context-length error the turn's
\* reply is the "conversation history is too long even after
\* summarization" message, when it fails otherwise the reply is the
\* "error generating the response" message; the model label is the
\* default model in both cases.
C11_RawCompletionFailureMessages ==
    \A t \in Turns :
        (/\ pc[t] \in {"persist", "done"}
         /\ fallback_steps[t] # <<>>
         /\ ChainEvents(t) =
               RaisedPrefix(fallback_steps[t], Len(fallback_steps[t])))
        => LET text == IF Occurs(t, "context_length_error")
                       THEN ContextLengthText ELSE GenericFailureText
           IN /\ chain_result[t].text = text
              /\ chain_result[t].model = gpt_model[t]
              /\ pc[t] = "done" => response[t].reply = text

\* C12 (messages are append-only): every message write uses an id no
\* stored message has, so no write replaces a stored message and the
\* number of stored messages is the number of message writes, also when
\* two turns write to one conversation within the same second.
C12_MessagesAppendOnly ==
    Len(messages) = Len(MsgWrites("w1")) + Len(MsgWrites("w2"))

\* The natural key of a tag: the user id of a participant, the document id
\* of a document, the value of an agent, model, web or semantic tag.
NaturalKey(tag) ==
    CASE tag.category = "participant" -> tag.user_id
      [] tag.category = "document" -> tag.document_id
      [] OTHER -> tag.value

NoSharedKey(tags) ==
    \A i, j \in 1..Len(tags) :
        (/\ tags[i].category = tags[j].category
         /\ NaturalKey(tags[i]) = NaturalKey(tags[j])) => i = j

\* C13: after any sequence of applications of collect_conversation_metadata
\* no two tags share the same (category, natural key) pair, and applying the
\* collector a second time with identical inputs yields the tag list that
\* applying it once yields, from every item the collector is applied to.
C13_TagDedupIdempotence ==
    LET item == conversation_item["w1"]
    IN /\ NoSharedKey(item.tags)
       /\ Len(trace["w1"]) < MaxCollects =>
             \A in \in MetaInputs :
                 LET once == collect_conversation_metadata(item, in)
                 IN collect_conversation_metadata(once, in).tags = once.tags

\* Two applications with different models and overlapping documents: both
\* model tags are kept and the document has one tag.
C13_Witness ==
    LET tags == conversation_item["w1"].tags
    IN /\ Len(trace["w1"]) = 2
       /\ Cardinality({i \in 1..Len(tags) : tags[i].category = "model"}) = 2
       /\ \E i \in 1..Len(tags) :
             /\ tags[i].category = "document"
             /\ Len(tags[i].chunk_ids) = 3
       /\ \E i \in 1..Len(tags) : tags[i].category = "participant"
       /\ \E i \in 1..Len(tags) : tags[i].category = "web"

DocumentTags(tags) == SelectSeq(tags, LAMBDA tag : tag.category = "document")

Elements(seq) == {seq[i] : i \in 1..Len(seq)}

StripFinalSegment(chunk_id) == SubSeq(chunk_id, 1, Len(chunk_id) - 1)

TaggedChunks(tags) ==
    UNION {Elements(tags[i].chunk_ids) : i \in 1..Len(tags)}

\* The search results hold exactly one chunk that is not tagged yet, and
\* every chunk in them belongs to a document that has a tag.
OneNewChunk(item, in, c) ==
    /\ {r.id : r \in Elements(in.search_results)} \ TaggedChunks(item.tags)
          = {c}
    /\ \A r \in Elements(in.search_results) :
          \E i \in 1..Len(item.tags) :
              /\ item.tags[i].category = "document"
              /\ item.tags[i].document_id = StripFinalSegment(r.id)

\* C14: applying collect_conversation_metadata to search results with one
\* new chunk of an already-tagged document leaves the number of document
\* tags unchanged and makes that tag's chunk_ids its previous chunk ids
\* followed by the new chunk id, every other document tag keeping its
\* chunk ids; every document tag holds each chunk id once, and only chunk
\* ids whose text without the final '_' segment is the tag's document id.
C14_ChunkAccumulation ==
    LET item == conversation_item["w1"]
        docs == DocumentTags(item.tags)
    IN /\ \A i \in 1..Len(docs) :
             /\ Cardinality(Elements(docs[i].chunk_ids))
                    = Len(docs[i].chunk_ids)
             /\ \A c \in Elements(docs[i].chunk_ids) :
                   StripFinalSegment(c) = docs[i].document_id
       /\ Len(trace["w1"]) < MaxCollects =>
             \A in \in MetaInputs, c \in ChunkIds :
                 OneNewChunk(item, in, c) =>
                     LET after == DocumentTags(
                             collect_conversation_metadata(item, in).tags)
                     IN /\ Len(after) = Len(docs)
                        /\ \A i \in 1..Len(docs) :
                              /\ after[i].document_id = docs[i].document_id
                              /\ after[i].chunk_ids =
                                    IF docs[i].document_id
                                           = StripFinalSegment(c)
                                    THEN Append(docs[i].chunk_ids, c)
                                    ELSE docs[i].chunk_ids

\* A document tagged with two chunks by one application, to which search
\* results with one of these chunks and a third one can be applied.
C14_Witness ==
    LET item == conversation_item["w1"]
        docs == DocumentTags(item.tags)
    IN /\ Len(trace["w1"]) = 1
       /\ Len(docs) = 1
       /\ docs[1].chunk_ids = <<<<"d1", "2">>, <<"d1", "1">>>>
       /\ \E in \in MetaInputs :
             /\ Len(in.search_results) = 2
             /\ in.search_results[1].id = <<"d1", "1">>
             /\ in.search_results[2].id = <<"d1", "3">>
             /\ OneNewChunk(item, in, <<"d1", "3">>)
             /\ Len(DocumentTags(
                    collect_conversation_metadata(item, in).tags)[1].chunk_ids)
                  = 3

\* C15: every top_n a request can carry reaches hybrid search clamped: the
\* integer itself when it is in 1..500, 500 when it is larger, 12 when it
\* is absent, not convertible to an integer or less than 1; no turn ends
\* without the search being called because of the top_n it carried.
C15_TopNClamping ==
    /\ \A v \in TopNRequests :
          IF v.kind = "int" /\ v.val >= 1
          THEN ClampTopN(v) = IF v.val > 500 THEN 500 ELSE v.val
          ELSE ClampTopN(v) = 12
    /\ \A t \in Turns : response[t] # ErrorResponse("hybrid_error")

PageNumbers(cs) == [i \in 1..Len(cs) |-> cs[i].page_number]

CountOfPage(cs, p) == Cardinality({i \in 1..Len(cs) : cs[i].page_number = p})

\* C16: when a turn with hybrid search has answered, the hybrid_citations
\* of its stored assistant message and of its response are the same list,
\* with one citation per retrieved chunk, page numbers never increasing;
\* chunks of pages 3, 1, 5 are cited in the order 5, 3, 1.
C16_CitationOrdering ==
    \A t \in Turns :
        (pc[t] = "done" /\ response[t].status = 200) =>
            LET cited == response[t].hybrid_citations
                stored == StoredWithRole(t, "assistant")
            IN /\ Len(stored) = 1
               /\ stored[1].hybrid_citations = cited
               /\ Len(cited) = Len(search_results[t])
               /\ \A p \in {1, 3, 5} :
                     CountOfPage(cited, p) = CountOfPage(search_results[t], p)
               /\ \A i \in 1..(Len(cited) - 1) :
                     cited[i].page_number >= cited[i + 1].page_number
               /\ PageNumbers(search_results[t]) = <<3, 1, 5>> =>
                     PageNumbers(cited) = <<5, 3, 1>>

C16_Witness ==
    \E t \in Turns :
        /\ pc[t] = "done"
        /\ response[t].status = 200
        /\ PageNumbers(search_results[t]) = <<3, 1, 5>>
        /\ PageNumbers(response[t].hybrid_citations) = <<5, 3, 1>>
        /\ PageNumbers(StoredWithRole(t, "assistant")[1].hybrid_citations)
              = <<5, 3, 1>>

CountOf(t, e) == Cardinality({i \in 1..Len(trace[t]) : trace[t][i] = e})

\* C17: a turn that asks for image generation and is not stopped at or
\* before the safety gate calls no hybrid or web search provider, assembles
\* no history and runs no chain step; it calls the image provider exactly
\* once, stores exactly one image message and answers with image_url set.
C17_ImageBypass ==
    \A t \in Turns :
        (/\ pc[t] = "done"
         /\ req[t].image_generation
         /\ response[t].kind \notin {"config_error", "read_error", "blocked"})
        => /\ ~Occurs(t, "hybrid_search")
           /\ ~Occurs(t, "bing_search")
           /\ ~Occurs(t, "summarize")
           /\ conversation_history_for_api[t] = <<>>
           /\ ChainEvents(t) = <<>>
           /\ CountOf(t, "images_generate") = 1
           /\ Len(StoredWithRole(t, "image")) = 1
           /\ "image_url" \in DOMAIN response[t]
           /\ response[t].image_url = ImageUrl

\* C18: when the web search provider raises, no web augmentation message
\* and no web citation is collected, and the turn, unless it asks for an
\* image or fails to read the history, ends with a 200 reply that is not
\* blocked, carries an empty web_search_citations list, and has stored one
\* assistant message with an empty list and no web augmentation message.
C18_WebSearchFailureNonFatal ==
    \A t \in Turns :
        Occurs(t, "bing_search_raised") =>
            /\ bing_citations_list[t] = <<>>
            /\ \A i \in 1..Len(system_messages_for_augmentation[t]) :
                  system_messages_for_augmentation[t][i] # WebAugmentation
            /\ (/\ pc[t] = "done"
                /\ ~req[t].image_generation
                /\ ~Occurs(t, "query_messages_raised"))
               => /\ response[t].status = 200
                  /\ response[t].kind = "reply"
                  /\ ~response[t].blocked
                  /\ response[t].web_search_citations = <<>>
                  /\ Len(StoredWithRole(t, "assistant")) = 1
                  /\ StoredWithRole(t, "assistant")[1].web_search_citations
                        = <<>>
                  /\ \A i \in 1..Len(StoredWithRole(t, "system")) :
                        StoredWithRole(t, "system")[i].content
                            # WebAugmentation.content

C18_Witness ==
    \E t \in Turns :
        /\ pc[t] = "done"
        /\ Occurs(t, "bing_search_raised")
        /\ Occurs(t, "gpt")
        /\ response[t].status = 200
        /\ response[t].kind = "reply"
        /\ response[t].web_search_citations = <<>>

\* The step of a turn that loads or creates its conversation and goes on.
LoadsConversation(t) ==
    /\ pc[t] = "idle"
    /\ pc'[t] = "user_message"

CreatedRecord(t, c) ==
    /\ c \in DOMAIN conversations'
    /\ conversations'[c].id = c
    /\ conversations'[c].user_id = req'[t].user_id
    /\ conversations'[c].title = NewConversationTitle
    /\ conversations'[c].context = <<>>
    /\ conversations'[c].tags = <<>>
    /\ conversation_item'[t] = conversations'[c]
    /\ conversation_id'[t] = c
    /\ \A d \in DOMAIN conversations : conversations'[d] = conversations[d]
    /\ DOMAIN conversations' = DOMAIN conversations \cup {c}

\* C19: a turn that supplies a conversation id the store has no record of
\* creates a record under exactly that id, with the default title and empty
\* context and tags, and goes on to write its user message; a turn that
\* supplies no id creates such a record under an id the store did not hold;
\* the reply of a turn carries the id of the conversation it worked on,
\* which is the supplied one when one was supplied.
C19_NotFoundRecovery ==
    /\ [][\A t \in Turns :
            (/\ pc[t] = "idle"
             /\ pc'[t] # "idle"
             /\ req'[t].conversation_id \notin DOMAIN conversations
             /\ response'[t].kind \notin {"config_error", "read_error"})
            => /\ LoadsConversation(t)
               /\ IF req'[t].conversation_id # NoneVal
                  THEN CreatedRecord(t, req'[t].conversation_id)
                  ELSE \E c \in ConvIds \ DOMAIN conversations :
                           CreatedRecord(t, c)]_vars
    /\ [](\A t \in Turns :
            (pc[t] = "done" /\ response[t].kind \in {"reply", "image"})
            => /\ response[t].conversation_id = conversation_id[t]
               /\ conversation_id[t] \in DOMAIN conversations
               /\ req[t].conversation_id # NoneVal
                     => response[t].conversation_id = req[t].conversation_id)

\* A turn that supplied the unknown id c2 has been answered under c2.
C19_Witness ==
    \E t \in Turns :
        /\ pc[t] = "done"
        /\ req[t].conversation_id = "c2"
        /\ Len(trace[t]) >= 3
        /\ SubSeq(trace[t], 1, 3)
              = <<"read_conversation", "upsert_conversation", "upsert_user">>
        /\ response[t].kind = "reply"
        /\ response[t].conversation_id = "c2"
        /\ conversations["c2"].id = "c2"

\* m when it has at most 30 characters, else its first 30 characters
\* followed by "...".
TitleOf(m) ==
    IF Len(m) <= 30 THEN m ELSE SubSeq(m, 1, 30) \o <<".", ".", ".">>

UserMessagesOf(c) ==
    SelectSeq(messages,
              LAMBDA d : d.conversation_id = c /\ d.role = "user")

\* C20: the turn that writes the first user message m of a conversation
\* sets the conversation's title to m when m has at most 30 characters and
\* to its first 30 characters followed by "..." otherwise; once the title
\* of a conversation is the one derived from a user message it holds, no
\* step changes it, whatever the later messages are.
C20_TitleOnce ==
    /\ [][\A t \in Turns :
            (/\ pc[t] = "user_message"
             /\ pc'[t] # "user_message"
             /\ UserMessagesOf(conversation_id[t]) = <<>>)
            => conversations'[conversation_id[t]].title
                  = TitleOf(req[t].message)]_vars
    /\ [][\A c \in DOMAIN conversations :
            (\E i \in 1..Len(UserMessagesOf(c)) :
                conversations[c].title
                    = TitleOf(UserMessagesOf(c)[i].content))
            => conversations'[c].title = conversations[c].title]_vars

\* C21: with turns following one another on a clock that advances, every
\* write of a conversation record by a turn stores a last_updated greater
\* than the one the store held for that conversation, and every turn that
\* ends with a 200 answer has written the record after its user message, so
\* last_updated strictly increases from one completed turn to the next.
C21_LastUpdatedIncreases ==
    /\ [][\A t \in Turns :
            (/\ CountOf(t, "upsert_conversation")'
                    > CountOf(t, "upsert_conversation")
             /\ conversation_id'[t] \in DOMAIN conversations)
            => conversations'[conversation_id'[t]].last_updated
                  > conversations[conversation_id'[t]].last_updated]_vars
    /\ [](\A t \in Turns :
            (pc[t] = "done" /\ response[t].status = 200)
            => /\ \E i \in 2..Len(SinceUserWrite(t)) :
                     SinceUserWrite(t)[i] = "upsert_conversation"
               /\ conversations[conversation_id[t]].last_updated = clock - 1)

\* The second turn on conversation c1 has been answered.
C21_Witness ==
    \E t \in Turns :
        /\ pc[t] = "done"
        /\ response[t].status = 200
        /\ req[t].turn = 2
        /\ trace[t][1] = "read_conversation"
        /\ trace[t][2] = "upsert_user"
        /\ conversations[conversation_id[t]].last_updated > 2

SummaryPlaces(history) ==
    {i \in 1..Len(history) : history[i].src = "summary"}

\* C22: in the history a turn hands to generation, when more messages are
\* stored than the recency window N holds and the summarizer was called and
\* returned a text, exactly one summary block is present and it stands
\* ahead of every entry taken from the recent window and of the turn's own
\* user entry; when no more than N messages are stored there is no summary
\* block.
C22_SummaryPlacement ==
    \A t \in Turns :
        pc[t] \in {"chain", "persist"} =>
            LET history == conversation_history_for_api[t]
                total == history_split[t].total_messages
                N == history_split[t].conversation_history_limit
            IN /\ (/\ total > N
                   /\ Occurs(t, "summarize")
                   /\ ~Occurs(t, "summarize_raised")
                   /\ ~Occurs(t, "summarize_empty"))
                  => /\ Cardinality(SummaryPlaces(history)) = 1
                     /\ \A i \in SummaryPlaces(history),
                           j \in 1..Len(history) :
                            (history[j].src = "recent"
                             \/ history[j].role \in {"user", "assistant"})
                            => i < j
               /\ total <= N => SummaryPlaces(history) = {}

C22_Witness ==
    \E t \in Turns :
        /\ pc[t] = "persist"
        /\ history_split[t].total_messages = 3
        /\ history_split[t].conversation_history_limit = 2
        /\ Occurs(t, "summarize")
        /\ Cardinality(SummaryPlaces(conversation_history_for_api[t])) = 1
        /\ conversation_history_for_api[t][1].src = "metadata"
        /\ \E j \in 1..Len(conversation_history_for_api[t]) :
              conversation_history_for_api[t][j].src = "recent"

\* C23: after any sequence of applications of the metadata collector to a
\* conversation created with an empty context list, with the active group
\* present, absent or changing from one application to the next, the
\* context list holds exactly one entry of type primary, and it is the
\* primary context of the last application.
C23_OnePrimaryContext ==
    LET context == conversation_item["w1"].context
        primaries == {i \in 1..Len(context) : context[i].type = "primary"}
    IN /\ trace["w1"] # <<>> => Cardinality(primaries) = 1
       /\ \A in \in ContextInputs :
             LET after == collect_conversation_metadata(
                              conversation_item["w1"], in).context
             IN /\ Cardinality({i \in 1..Len(after) :
                                   after[i].type = "primary"}) = 1
                /\ \E i \in 1..Len(after) : after[i] = PrimaryContext(in)

\* Three applications: a personal primary context with secondary contexts
\* of a group and of a public workspace, the group having been the primary
\* context before.
C23_Witness ==
    LET context == conversation_item["w1"].context
    IN /\ Len(trace["w1"]) = 3
       /\ Len(context) = 3
       /\ context[1] = [type |-> "primary", scope |-> "personal",
                        id |-> "u1"]
       /\ \E i \in 2..3 : context[i] = [type |-> "secondary",
                                         scope |-> "group", id |-> "g1"]
       /\ \E i \in 2..3 : context[i].scope = "public"

\* C24: a turn writes the conversation record as the copy it holds in
\* memory, whatever record the store holds at that moment (no lock and no
\* version check), so that with two turns at work on one conversation an
\* update written by one of them can be missing from the stored record
\* after a write of the other.
C24_LastWriteWins ==
    [][\A t \in Turns :
          CountOf(t, "upsert_conversation")' > CountOf(t, "upsert_conversation")
          => conversations'[conversation_id'[t]] = conversation_item'[t]]_vars

\* Both turns have written their user message on c1; the first derived the
\* title "hello" and stored it, and the stored title now is the second's.
C24_Witness ==
    \E t, u \in Turns :
        /\ t # u
        /\ conversation_id[t] = "c1"
        /\ conversation_id[u] = "c1"
        /\ Occurs(t, "upsert_user")
        /\ Occurs(u, "upsert_user")
        /\ conversation_item[t].title = <<"h", "e", "l", "l", "o">>
        /\ conversation_item[u].title = <<"h", "i">>
        /\ conversations["c1"].title = <<"h", "i">>

\* The configurations in which the completion model cannot be resolved.
Unresolvable(cfg) ==
    \/ cfg.deployments = <<>>
    \/ /\ cfg.enable_gpt_apim
       /\ cfg.frontend_gpt_model # ""
       /\ \A i \in 1..Len(cfg.deployments) :
             cfg.deployments[i] # cfg.frontend_gpt_model
    \/ /\ cfg.enable_gpt_apim
       /\ cfg.frontend_gpt_model = ""
       /\ Len(cfg.deployments) > 1
    \/ /\ ~cfg.enable_gpt_apim
       /\ ~cfg.managed_identity
       /\ ~cfg.api_key

\* C25: when the completion model cannot be resolved (nothing selected, no
\* APIM deployment, requested model not among the APIM deployments, several
\* APIM deployments and none requested, no API key) the turn ends at once
\* with a 500 answer, having called no provider, and the step that answers
\* leaves conversations, messages and the safety log as they were; in every
\* other configuration a model is resolved and the turn is not answered
\* with this error.
C25_ConfigErrorFrame ==
    /\ [](\A cfg \in ModelConfigs :
            (ResolveModel(cfg) = "") <=> Unresolvable(cfg))
    /\ [](\A t \in Turns :
            response[t].kind = "config_error"
            => /\ response[t].status = 500
               /\ pc[t] = "done"
               /\ trace[t] = <<>>
               /\ StoredBy(t) = <<>>
               /\ conversation_id[t] = NoneVal)
    /\ [][\A t \in Turns :
            (response'[t].kind = "config_error"
             /\ response[t].kind # "config_error")
            => UNCHANGED <<conversations, messages, safety_log>>]_vars

\* The second turn ends with the configuration error while the first
\* turn's conversation and messages are in the store.
C25_Witness ==
    \E t \in Turns :
        /\ response[t].kind = "config_error"
        /\ req[t].turn = 2
        /\ req[t].conversation_id = "c1"
        /\ "c1" \in DOMAIN conversations
        /\ Len(messages) >= 2

\* The start of the rate-limit window each answered call falls in: the
\* time of the client's first call, or of its first call later than 60
\* seconds after the start of the window before.
RECURSIVE WindowStarts(_)
WindowStarts(log) ==
    IF log = <<>> THEN <<>>
    ELSE LET n == Len(log)
             before == WindowStarts(SubSeq(log, 1, n - 1))
         IN  Append(before,
                    IF n = 1 \/ log[n].time > before[n - 1] + rate_limit_window
                    THEN log[n].time
                    ELSE before[n - 1])

\* The call answered last for a client, against the calls answered before
\* it in the same window.
LastCallWithinLimit(ip) ==
    LET log == calls[ip]
        n == Len(log)
        starts == WindowStarts(log)
        served == {j \in 1..(n - 1) :
                      starts[j] = starts[n] /\ log[j].status = 200}
    IN  /\ log[n].status \in {200, 429}
        /\ log[n].status = 200
             => Cardinality(served) < rate_limit_requests
        /\ Cardinality(served) >= rate_limit_requests
             => log[n].status = 429
        /\ starts[n] = log[n].time /\ (n = 1 \/ starts[n - 1] # starts[n])
             => log[n].status = 200

\* C26: for each client IP, of the calls of get_spec in one window (60
\* seconds from the IP's first counted call) at most 30 are served and
\* every further one is answered 429, with calls of the same IP coming
\* from two threads; the first call after the window has expired is served;
\* answering a call of one IP leaves the counter of every other IP alone.
C26_SwaggerRateLimit ==
    /\ [](\A ip \in ClientIps :
            calls[ip] # <<>> => LastCallWithinLimit(ip))
    /\ [][\A ip \in ClientIps :
            calls'[ip] = calls[ip]
            => /\ (ip \in DOMAIN request_counts')
                    = (ip \in DOMAIN request_counts)
               /\ ip \in DOMAIN request_counts
                    => request_counts'[ip] = request_counts[ip]]_vars

\* One client was served 30 times in its window, then refused half a
\* window after its first call, then served again after the window had
\* expired, while another client was served.
C26_Witness ==
    /\ Len(calls["ip1"]) = rate_limit_requests + 2
    /\ calls["ip1"][1].time = 0
    /\ calls["ip1"][rate_limit_requests].status = 200
    /\ calls["ip1"][rate_limit_requests + 1] =
          [time |-> rate_limit_window \div 2, status |-> 429]
    /\ calls["ip1"][rate_limit_requests + 2] =
          [time |-> rate_limit_window + 1, status |-> 200]
    /\ calls["ip2"] # <<>>
    /\ calls["ip2"][1].status = 200

\* C27: a turn whose verdict satisfied the blocking rule never goes on to
\* retrieval, history assembly or generation, also when a write of the
\* block recording raises: after a verdict with a block reason the turn
\* makes no search call and no provider call and stores no assistant
\* message.
C27_BlockedNeverProceeds ==
    \A t \in Turns :
        (Occurs(t, "upsert_safety_log") \/ Occurs(t, "upsert_raised"))
        => /\ pc[t] \in {"done", "idle"}
           /\ \A i \in 1..Len(trace[t]) :
                 trace[t][i] \notin (ProviderCalls \ {"analyze_text"})
                                    \cup {"upsert_assistant"}

\* C28: the message list handed to the fallback chain ends with the turn's
\* own user message: once the history is assembled, and while the chain
\* runs, its last entry has role user and the content of this turn's
\* message, also when another turn on the same conversation stored a
\* message between this turn's user-message write and its history load.
C28_EndsWithOwnMessage ==
    \A t \in Turns :
        pc[t] \in {"build_chain", "chain"}
        => LET history == conversation_history_for_api[t]
           IN  /\ history # <<>>
               /\ history[Len(history)].role = "user"
               /\ history[Len(history)].content = req[t].message

\* C29: a turn submitted with the id of a conversation that another user
\* owns appends no message to it and does not change its record: every
\* stored message belongs to a turn of the owner of its conversation (the
\* first turn is u1's, the second u2's), and a step of a turn whose user
\* is not the owner leaves the record as it is.
C29_ConversationOwnership ==
    /\ [](\A i \in 1..Len(messages) :
            conversations[messages[i].conversation_id].user_id
              = (IF messages[i].turn = 1 THEN "u1" ELSE "u2"))
    /\ [][\A t \in Turns :
            \A c \in DOMAIN conversations :
                (conversation_id[t] = c
                 /\ pc[t] \notin {"idle", "done"}
                 /\ req[t].user_id # conversations[c].user_id)
                => conversations'[c] = conversations[c]]_vars

\* The place of a block in the order of the final history, with the block
\* named first in front: the two leading system blocks, the summary, the
\* hybrid and the web augmentation, the recent history.  The default
\* system prompt has no place in this order.
BlockRank(src, first) ==
    CASE src = first -> 1
      [] src \in {"facts", "metadata"} \ {first} -> 2
      [] src = "summary" -> 3
      [] src = "hybrid" -> 4
      [] src = "web" -> 5
      [] OTHER -> 6

\* The history of a turn at the chain: its blocks stand in the order that
\* puts the named block first, it ends with the turn's user message, and
\* each augmentation entry is stored as a system message of its own that
\* carries the search query and the user message.
BlocksInOrder(t, first) ==
    LET history == SelectSeq(conversation_history_for_api[t],
                             LAMBDA e : e.src # "default_prompt")
        aug == SelectSeq(history, LAMBDA e : e.src \in {"hybrid", "web"})
        stored == StoredWithRole(t, "system")
    IN  /\ \A i, j \in 1..Len(history) :
              i < j => BlockRank(history[i].src, first)
                         <= BlockRank(history[j].src, first)
        /\ history # <<>>
        /\ history[Len(history)].role = "user"
        /\ history[Len(history)].content = req[t].message
        /\ Len(stored) = Len(aug)
        /\ \A i \in 1..Len(aug) :
              /\ stored[i].content = aug[i].content
              /\ stored[i].user_message = req[t].message
              /\ stored[i].search_query = req[t].message
              /\ \A j \in 1..Len(aug) : i # j => stored[i].id # stored[j].id

C31_HistorySplit ==
    \A t \in Turns :
        pc[t] = "build_chain" =>
            LET M == history_split[t].total_messages
                N == history_split[t].conversation_history_limit
                all_messages ==
                    SubSeq(QueryMessages(conversation_id[t]), 1, M)
                recent == history_split[t].recent_messages
                older == OlderMessages(all_messages, N)
            IN /\ N % 2 = 0
               /\ Len(recent) = Min(M, N)
               /\ recent = SubSeq(all_messages, M - Min(M, N) + 1, M)
               /\ older = SubSeq(all_messages, 1, M - Min(M, N))
               /\ older \o recent = all_messages
               /\ Occurs(t, "summarize")
                    => MessageTextsOlder(
                           SubSeq(all_messages, 1, M - Min(M, N))) # <<>>

\* C32 (agent selection priority): once the agent has been selected, with
\* no agent loaded nothing is selected; with agents loaded an agent of the
\* pool is selected: one with the configured name when the pool has one,
\* otherwise the first agent flagged default, otherwise the first agent.
C32_AgentSelectionPriority ==
    \A t \in Turns :
        (\E e \in 1..Len(trace[t]) : trace[t][e] = "select_agent") =>
            LET pool == agent_locals[t].all_agents
                name == agent_locals[t].agent_name_to_select
                chosen == agent_locals[t].selected_agent
                flagged == {i \in 1..Len(pool) : pool[i].default_agent}
            IN /\ pool = <<>> => chosen.name = NoneVal
               /\ pool # <<>> => \E i \in 1..Len(pool) : chosen = pool[i]
               /\ (\E i \in 1..Len(pool) : pool[i].name = name)
                    => chosen.name = name
               /\ (/\ \A i \in 1..Len(pool) : pool[i].name # name
                   /\ flagged # {})
                    => \E i \in flagged :
                          /\ chosen = pool[i]
                          /\ \A j \in flagged : i <= j
               /\ (/\ pool # <<>>
                   /\ \A i \in 1..Len(pool) : pool[i].name # name
                   /\ flagged = {})
                    => chosen = pool[1]

\* The configured name is that of the second agent, the first agent is
\* flagged default, and the second agent was selected.
C32_Witness ==
    \E t \in Turns :
        /\ pc[t] = "chain"
        /\ Len(agent_locals[t].all_agents) = 2
        /\ agent_locals[t].all_agents[1] =
              [name |-> "a", default_agent |-> TRUE]
        /\ agent_locals[t].agent_name_to_select = "b"
        /\ agent_locals[t].selected_agent =
              [name |-> "b", default_agent |-> FALSE]
        /\ fallback_steps[t][1].name = "agent"

\* The names of the steps of a chain, in order.
StepNamesOf(steps) == [i \in 1..Len(steps) |-> steps[i].name]

\* The steps the conditions of a configuration call for, in the order
\* orchestrator, agent, external agent service, kernel, raw completion.
StepsCalledFor(cfg) ==
    SelectSeq(<<"orchestrator", "agent", "azure-agent-service", "kernel",
                "gpt">>,
              LAMBDA n :
                  \/ n = "gpt"
                  \/ /\ cfg.agentic
                     /\ \/ n = "orchestrator" /\ cfg.multi_agent
                                              /\ cfg.orchestrator
                        \/ n = "agent" /\ cfg.agent
                        \/ n = "azure-agent-service" /\ cfg.azure
                        \/ n = "kernel" /\ cfg.kernel)

\* C33 (chain construction): in every configuration the chain is the
\* steps its conditions call for, in the order orchestrator, selected
\* agent, external agent service, kernel, raw completion, the raw
\* completion step alone when agents are disabled; every chain a turn
\* builds has the raw completion step exactly once, as its last step.
C33_ChainConstruction ==
    /\ \A cfg \in ChainConfigs :
          StepNamesOf(FallbackSteps(cfg, "gpt-4o")) = StepsCalledFor(cfg)
    /\ \A t \in Turns :
          pc[t] = "chain" =>
              LET names == StepNamesOf(fallback_steps[t])
              IN  /\ names # <<>>
                  /\ names[Len(names)] = "gpt"
                  /\ \A i \in 1..(Len(names) - 1) : names[i] # "gpt"
                  /\ \E cfg \in ChainConfigs : names = StepsCalledFor(cfg)

\* A turn whose chain has all five steps.
C33_Witness ==
    \E t \in Turns :
        /\ pc[t] = "chain"
        /\ StepNamesOf(fallback_steps[t])
             = <<"orchestrator", "agent", "azure-agent-service", "kernel",
                 "gpt">>

\* The entries of a turn's history that come from the summary of the older
\* messages.
SummaryBlocksOf(t) ==
    {i \in 1..Len(conversation_history_for_api[t]) :
        conversation_history_for_api[t][i].src = "summary"}

\* C34: a summarization failure is never fatal.  When the summary call for
\* the older messages raises, the history of the turn has no summary
\* block, and the turn, once over, has called a step of the fallback chain,
\* has written an assistant message and answers with a reply.  When the
\* summary for the search query fails (its completion or its query for the
\* messages raises), the search query is the raw user message, and the
\* search is called with it unless the turn ends on the top_n conversion.
C34_SummarizationNeverFatal ==
    \A t \in Turns :
        /\ "summarize_raised" \in Range(trace[t])
           => /\ SummaryBlocksOf(t) = {}
              /\ pc[t] = "done"
                 => /\ response[t].kind = "reply"
                    /\ "upsert_assistant" \in Range(trace[t])
                    /\ "gpt" \in Range(trace[t])
        /\ (Range(trace[t])
              \cap {"summarize_search_raised", "query_search_raised"}) # {}
           => /\ search_query[t] = req[t].message
              /\ \/ "hybrid_search" \in Range(trace[t])
                 \/ /\ pc[t] = "done"
                    /\ response[t].kind = "hybrid_error"

\* A finished turn in which both summaries failed and which replied.
C34_Witness ==
    \E t \in Turns :
        /\ pc[t] = "done"
        /\ response[t].kind = "reply"
        /\ "summarize_raised" \in Range(trace[t])
        /\ "summarize_search_raised" \in Range(trace[t])
        /\ search_query[t] = req[t].message

\* The non-empty classification labels of a list of chunks.
LabelsOf(results) ==
    {results[i].classification : i \in 1..Len(results)} \ {NoneVal, ""}

\* C35: classification accumulation.  The step that completes a turn whose
\* hybrid search returned chunks stores, for the turn's conversation, the
\* classification set the record had united with the non-empty labels of
\* the returned chunks; and with one turn running at a time no step takes
\* a label away from a stored record.
C35_ClassificationAccumulation ==
    /\ [][\A t \in Turns :
            (/\ pc[t] = "persist"
             /\ pc'[t] = "done"
             /\ response'[t].kind = "reply"
             /\ search_results[t] # <<>>)
            => conversations'[conversation_id[t]].classification
                 = conversations[conversation_id[t]].classification
                   \cup LabelsOf(search_results[t])]_vars
    /\ [][\A c \in DOMAIN conversations :
            /\ c \in DOMAIN conversations'
            /\ conversations[c].classification
                 \subseteq conversations'[c].classification]_vars

\* The second turn on a conversation is over: its search returned a chunk
\* labelled c2, and the record holds c1 from the first turn and c2.
C35_Witness ==
    \E t \in Turns :
        /\ pc[t] = "done"
        /\ response[t].kind = "reply"
        /\ req[t].turn = 2
        /\ LabelsOf(search_results[t]) = {"c2"}
        /\ conversations[conversation_id[t]].classification = {"c1", "c2"}

\* The results an index contributes to a call: its first top_n.
FirstOf(paged_results, top_n) ==
    {paged_results[i] : i \in 1..Min(Len(paged_results), top_n)}

\* The chunks a call can return, by scope.
Candidates(call) ==
    CASE call.doc_scope = "all" ->
             FirstOf(call.chunks, call.top_n)
             \cup FirstOf(call.group_chunks, call.top_n)
      [] call.doc_scope = "personal" -> FirstOf(call.chunks, call.top_n)
      [] call.doc_scope = "group" -> FirstOf(call.group_chunks, call.top_n)
      [] OTHER -> {}

StageOf(label) ==
    CASE label \in {"safety", "safety_verdict"} -> 1
      [] label \in {"hybrid", "bing", "image"} -> 2
      [] label = "history" -> 3
      [] label \in {"build_chain", "chain"} -> 4
      [] label = "persist" -> 5
      [] OTHER -> 0

\* C37: every submitted turn terminates, in one outcome among configuration
\* error, conversation-read error, blocked, hybrid-search error, image
\* reply, image-generation error, history-preparation error and assistant
\* reply; and a step of a turn that is in a stage leaves it in that stage,
\* takes it to a later one or ends the turn.
C37_TurnTermination ==
    /\ \A t \in Turns : (pc[t] # "idle") ~> (pc[t] = "done")
    /\ [](\A t \in Turns :
            pc[t] = "done"
            => response[t].kind \in
                 {"config_error", "read_error", "blocked", "hybrid_error",
                  "image", "image_error", "history_error", "reply"})
    /\ [][\A t \in Turns :
            StageOf(pc[t]) > 0
            => \/ pc'[t] = "done"
               \/ StageOf(pc'[t]) >= StageOf(pc[t])]_vars

\* The characters between the fixed texts of a file note.
PreviewOf(note) == SubSeq(note.content, 4, Len(note.content) - 1)

\* C38: role projection of the recent window.  The entries the recent
\* window contributes to the history of a turn are, in stored order, one
\* for each recent message with role user, assistant or file and none for
\* any other role (image, safety, blocked): a user or assistant message
\* gives its role and content unchanged; a file gives one system note
\* whose preview is the first characters of the file content, 1000 at
\* most, followed by nothing but the three dots that mark a cut.
C38_RoleProjection ==
    \A t \in Turns :
        pc[t] \in {"build_chain", "chain", "persist"}
        => LET proj == SelectSeq(conversation_history_for_api[t],
                                 LAMBDA e : e.src = "recent")
               kept == SelectSeq(history_split[t].recent_messages,
                                 LAMBDA m : m.role \in {"user", "assistant",
                                                        "file"})
           IN /\ Len(proj) = Len(kept)
              /\ \A i \in 1..Len(kept) :
                    IF kept[i].role = "file"
                    THEN LET fc == kept[i].file_content
                             k == Min(Len(fc), 1000)
                             preview == PreviewOf(proj[i])
                         IN /\ proj[i].role = "system"
                            /\ SubSeq(preview, 1, k) = SubSeq(fc, 1, k)
                            /\ SubSeq(preview, k + 1, Len(preview))
                                 \in {<<>>, <<".", ".", ".">>}
                    ELSE /\ proj[i].role = kept[i].role
                         /\ proj[i].content = kept[i].content

\* A turn at the chain whose recent window holds a safety notice, a file
\* of 1001 characters and the user message: the history has the note of
\* the file, with a preview of 1000 characters and the dots, and the user
\* message after it.
C38_Witness ==
    \E t \in Turns :
        LET recent == history_split[t].recent_messages
            proj == SelectSeq(conversation_history_for_api[t],
                              LAMBDA e : e.src = "recent")
        IN /\ pc[t] = "chain"
           /\ Len(recent) = 3
           /\ recent[1].role = "safety"
           /\ recent[2].role = "file"
           /\ Len(recent[2].file_content) = 1001
           /\ Len(proj) = 2
           /\ proj[1].role = "system"
           /\ Len(PreviewOf(proj[1])) = 1003
           /\ proj[2].role = "user"

====
